---- MODULE Spec2Model ----
(***************************************************************************)
(* Traffic collector of Containarium (internal/traffic): the conntrack     *)
(* monitor's event channel, the container cache (directory), the           *)
(* collector's connection map (registry), its event loop, its snapshot     *)
(* reconciliation and the PostgreSQL store of completed connections.       *)
(*                                                                         *)
(* Goroutines are modelled with one program counter each.  A step is the   *)
(* code between two synchronisation points (a channel operation or a       *)
(* mutex acquisition).  Writes made while Collector.mu is held become      *)
(* visible to the other goroutines at the unlock.                          *)
(***************************************************************************)
EXTENDS Integers, Sequences, FiniteSets, TLC

\* ------------------------------------------------------------------ bounds
\* Number of observations (events delivered by the kernel, table dumps) in a run.
MaxClock == 3
\* Largest packet count the kernel reports per direction of a flow.
MaxCount == 1
\* Capacity of the monitor's event channel in the model (1000 in the code).
EventChanCap == 1
\* Persist workers of the specification's pool in the model ("a small
\* constant, e.g., 4" there; the code has no such setting).
WorkerBound == 1
\* Clock ticks per second (timestamps are integers counting ticks).
TicksPerSecond == 2
\* Number of SaveConnection calls in a run of SpecStore.
MaxStoreCalls == 3
\* Number of times the cleanup ticker fires in a run.
MaxCleanups == 1
\* Days that pass in a run of SpecCleanup.
MaxDays == 2
\* Ticks that pass within a day in a run of SpecCleanup.
MaxDayTicks == 1
\* Number of SaveAggregate calls in a run of SpecCleanup.
MaxAggCalls == 2

\* ------------------------------------------------------- program constants
\* DefaultCollectorConfig: RetentionDays.
RetentionDays == 7
\* Store.QueryConnections: the page size when params.Limit is not positive.
DefaultLimit == 100
\* Store.QueryConnections: the largest page size.
MaxLimit == 1000

TicksPerDay == 24 * 3600 * TicksPerSecond

TicksPerHour == 3600 * TicksPerSecond

\* ------------------------------------------------------------ input domain
FlowIds == {1, 2}

IpA == "10.0.0.5"
IpB == "10.0.0.6"
IpExt == "93.184.216.34"

\* The 5-tuple and protocol of each kernel flow; a flow id keeps its tuple.
\* Flow 1 runs between two container addresses, flow 2 comes from outside.
FlowTuple(id) ==
    IF id = 1
    THEN [Protocol |-> "tcp", SrcIP |-> IpA, SrcPort |-> 40000,
          DstIP |-> IpB, DstPort |-> 443, State |-> "ESTABLISHED"]
    ELSE [Protocol |-> "udp", SrcIP |-> IpExt, SrcPort |-> 55555,
          DstIP |-> IpA, DstPort |-> 53, State |-> ""]

\* What incusClient.ListContainers can return: container a (address IpA when
\* it has one) and container b (address IpB when it has one).
Inventories ==
    { <<[Name |-> "a", IPAddress |-> x], [Name |-> "b", IPAddress |-> y]>> :
        x \in {"", IpA}, y \in {"", IpB} }

\* ------------------------------------------------------------------- state
VARIABLES
    clock,          \* time.Now(), in ticks
    live,           \* kernel: ids of the flows in the conntrack table
    cnt,            \* kernel: per flow id, packets seen [o |-> orig, r |-> reply]
    events,         \* LinuxConntrackMonitor.events (buffered channel)
    ipToName,       \* ContainerCache.ipToName
    nameToIP,       \* ContainerCache.nameToIP
    storePresent,   \* Collector.store != nil
    connections,    \* Collector.connections
    mu,             \* Collector.mu: "free" or the goroutine holding it
    evPc,           \* event loop: position in handleConntrackEvents
    evCur,          \* event loop: the event being processed
    evConn,         \* event loop: conn built by convertToProto
    snapPc,         \* snapshot goroutine: position in takeSnapshot
    snapDump,       \* snapshot goroutine: events returned by monitor.Snapshot()
    snapIdx,        \* snapshot goroutine: index of the range loop
    snapBuild,      \* snapshot goroutine: the map being rebuilt under mu
    published,      \* traffic events handed to emitter.EmitTrafficEvent
    persistTasks,   \* SaveConnection goroutines started and not yet run
    storeRows,      \* rows of table traffic_connections
    nextRowId,      \* the BIGSERIAL sequence of traffic_connections.id
    \* history variables (not program state)
    hLastObserved,  \* per id: type of the last event received by the event loop
    hLastAttributed,\* per id: whether that event was attributed to a container
    hLastWrite,     \* per id: the last write to the registry concerning the id
    hFirstAttr,     \* per id: observed_at of the attribution that put it in the registry
    hEvicted,       \* ids the last snapshot reconciliation removed
    hRowFacts,      \* per row id: what the DESTROY that caused the row looked like
    hStale,         \* ids removed by a DESTROY since the dump in hand was read
    hGen,           \* the directory the source lookup of the event in hand read, and
                    \* the refreshes since
    \* lifecycle
    monitorPresent, \* Collector.monitor != nil
    emitterPresent, \* Collector.emitter != nil
    ctxDone,        \* Collector.ctx is cancelled
    mDone,          \* LinuxConntrackMonitor.ctx is cancelled
    eventsClosed,   \* LinuxConntrackMonitor.events is closed
    connClosed,     \* LinuxConntrackMonitor.conn is closed
    poolClosed,     \* Store.pool is closed
    listenPc,       \* LinuxConntrackMonitor.listen: "none", "running", "exited"
    refreshPc,      \* ContainerCache.StartRefresh: "none", "initial", "select", "exited"
    cleanupPc,      \* periodicCleanup: "none", "select", "exited"
    stopPc,         \* per caller of Collector.Stop: its position in Stop
    panicked,       \* a goroutine panicked: the process is gone
    \* a caller of Collector.GetConnections
    rdPc,           \* position in GetConnections
    rdArg,          \* the containerName argument
    rdDump,         \* events returned by monitor.Snapshot() to this caller
    rdIdx,          \* index of the range loop of this caller's takeSnapshot
    rdBuild,        \* the map this caller's takeSnapshot rebuilds under mu
    rdResult,       \* the slice GetConnections returned last
    \* the store, called directly
    aggRows,        \* rows of table traffic_aggregates
    queryResult,    \* the Store.QueryConnections call in progress or returned last
    hLastCleanup,   \* the last direct Store.Cleanup call: its argument, time and table
    hAggCalls,      \* the (agg, containerName) arguments of the Store.SaveAggregate calls
    \* history variables of the lifecycle
    hOpenFailed,    \* NewConntrackMonitor returned an error
    hCleanups,      \* number of store.Cleanup calls made by periodicCleanup
    hRdTrace,       \* what the current GetConnections call has done so far
    \* calls of the query API
    aggregateResult,\* the Store.GetAggregates call returned last
    rpc,            \* the TrafficServer call in progress or returned last
    mcp             \* the MCP request handled last and its response

vars == <<clock, live, cnt, events, ipToName, nameToIP, storePresent, connections,
          mu, evPc, evCur, evConn, snapPc, snapDump, snapIdx, snapBuild,
          published, persistTasks, storeRows, nextRowId,
          hLastObserved, hLastAttributed, hLastWrite, hFirstAttr, hEvicted, hRowFacts,
          hGen, hStale, monitorPresent, emitterPresent, ctxDone, mDone, eventsClosed, connClosed,
          poolClosed, listenPc, refreshPc, cleanupPc, stopPc, panicked,
          rdPc, rdArg, rdDump, rdIdx, rdBuild, rdResult, aggRows, queryResult,
          hLastCleanup, hAggCalls,
          hOpenFailed, hCleanups, hRdTrace, aggregateResult, rpc, mcp>>

kernelVars == <<live, cnt>>
cacheVars == <<ipToName, nameToIP>>
evVars == <<evPc, evCur, evConn>>
snapVars == <<snapPc, snapDump, snapIdx, snapBuild>>
storeVars == <<storeRows, nextRowId>>
histVars == <<hLastObserved, hLastAttributed, hLastWrite, hFirstAttr, hEvicted, hRowFacts,
              hGen, hStale>>
configVars == <<monitorPresent, emitterPresent, hOpenFailed>>
monitorVars == <<mDone, eventsClosed, connClosed, listenPc>>
loopVars == <<ctxDone, refreshPc, cleanupPc, hCleanups>>
stopVars == <<stopPc, panicked>>
rdVars == <<rdPc, rdArg, rdDump, rdIdx, rdBuild, rdResult, hRdTrace>>
dbVars == <<poolClosed, aggRows, queryResult, hLastCleanup, hAggCalls>>
apiVars == <<aggregateResult, rpc, mcp>>
lifeVars == <<configVars, apiVars, monitorVars, loopVars, stopVars, rdVars, dbVars>>

\* ----------------------------------------------------------------- helpers
EmptyMap == [x \in {} |-> x]
MapGet(m, k) == IF k \in DOMAIN m THEN m[k] ELSE ""
MapPut(m, k, v) == [x \in DOMAIN m \cup {k} |-> IF x = k THEN v ELSE m[x]]
MapDel(m, k) == [x \in DOMAIN m \ {k} |-> m[x]]

NoEvent == [Type |-> "NONE"]
NoConn == [Direction |-> "NONE"]

\* No event is between its two lookups.
NoGen == [before |-> EmptyMap, refreshes |-> 0]

\* The ids of a set, ascending, as a sequence.
RECURSIVE SortedSeq(_)
SortedSeq(S) ==
    IF S = {} THEN <<>>
    ELSE LET m == CHOOSE x \in S : \A y \in S : x <= y
         IN <<m>> \o SortedSeq(S \ {m})

\* -------------------------------------------------------- conntrack monitor
\* Kernel counters of a flow: every packet of the model carries 100 bytes.
KernelFlow(id) ==
    [ID |-> id,
     BytesOrig |-> 100 * cnt[id].o, PacketsOrig |-> cnt[id].o,
     BytesReply |-> 100 * cnt[id].r, PacketsReply |-> cnt[id].r]

\* LinuxConntrackMonitor.processEvent: the event built from a kernel event.
processEvent(type, flow, now) ==
    [ID |-> flow.ID, Type |-> type,
     Protocol |-> FlowTuple(flow.ID).Protocol,
     SrcIP |-> FlowTuple(flow.ID).SrcIP, SrcPort |-> FlowTuple(flow.ID).SrcPort,
     DstIP |-> FlowTuple(flow.ID).DstIP, DstPort |-> FlowTuple(flow.ID).DstPort,
     State |-> FlowTuple(flow.ID).State,
     BytesOrig |-> IF flow.BytesOrig > 0 THEN flow.BytesOrig ELSE 0,
     PacketsOrig |-> IF flow.BytesOrig > 0 THEN flow.PacketsOrig ELSE 0,
     BytesReply |-> IF flow.BytesReply > 0 THEN flow.BytesReply ELSE 0,
     PacketsReply |-> IF flow.BytesReply > 0 THEN flow.PacketsReply ELSE 0,
     Timestamp |-> now]

\* Variant of sendEvent that buffers the event whatever the channel holds.
sendEvent_Unbounded(ch, event) == Append(ch, event)

\* The non-blocking send at the end of processEvent: a full channel drops.
sendEvent(ch, event) ==
    IF Len(ch) < EventChanCap THEN Append(ch, event) ELSE ch

\* What the monitor counts when it drops an event: LinuxConntrackMonitor has no
\* counter field and processEvent's default branch only writes a log line, so
\* the number of drops the program can report is 0 at all times.
droppedEvents == 0

\* LinuxConntrackMonitor.Snapshot: one UPDATE-typed event per flow of the table.
Snapshot(table, now) ==
    LET ids == SortedSeq(table)
    IN [i \in 1..Len(ids) |->
          [ID |-> ids[i], Type |-> "UPDATE",
           Protocol |-> FlowTuple(ids[i]).Protocol,
           SrcIP |-> FlowTuple(ids[i]).SrcIP, SrcPort |-> FlowTuple(ids[i]).SrcPort,
           DstIP |-> FlowTuple(ids[i]).DstIP, DstPort |-> FlowTuple(ids[i]).DstPort,
           State |-> FlowTuple(ids[i]).State,
           BytesOrig |-> KernelFlow(ids[i]).BytesOrig,
           PacketsOrig |-> KernelFlow(ids[i]).PacketsOrig,
           BytesReply |-> KernelFlow(ids[i]).BytesReply,
           PacketsReply |-> KernelFlow(ids[i]).PacketsReply,
           Timestamp |-> now]]

\* ---------------------------------------------------------- container cache
\* ContainerCache.LookupIP: the name, "" when the address is unknown.
LookupIP(ip) == MapGet(ipToName, ip)

\* ContainerCache.Refresh, the rebuild of ipToName from the container list.
RECURSIVE buildIpToName(_)
buildIpToName(containers) ==
    IF containers = <<>> THEN EmptyMap
    ELSE LET n == Len(containers)
             rest == buildIpToName(SubSeq(containers, 1, n - 1))
             c == containers[n]
         IN IF c.IPAddress # "" THEN MapPut(rest, c.IPAddress, c.Name) ELSE rest

\* ContainerCache.Refresh, the rebuild of nameToIP from the container list.
RECURSIVE buildNameToIP(_)
buildNameToIP(containers) ==
    IF containers = <<>> THEN EmptyMap
    ELSE LET n == Len(containers)
             rest == buildNameToIP(SubSeq(containers, 1, n - 1))
             c == containers[n]
         IN IF c.IPAddress # "" THEN MapPut(rest, c.Name, c.IPAddress) ELSE rest

\* ---------------------------------------------------------------- collector
\* Variant of lookupSrc that reads the destination address.
lookupSrc_UsesDst(event) == LookupIP(event.DstIP)

\* processConntrackEvent / takeSnapshot: "Check source IP first".
lookupSrc(event) == LookupIP(event.SrcIP)

\* processConntrackEvent / takeSnapshot: "Check destination IP".
lookupDst(event) == LookupIP(event.DstIP)

\* Variant of skipEvent that lets every event through.
skipEvent_Never(containerName) == FALSE

\* processConntrackEvent / takeSnapshot: "Skip if not a container connection".
skipEvent(containerName) == containerName = ""

protoStringToEnum(proto) ==
    CASE proto = "tcp" -> "PROTOCOL_TCP"
      [] proto = "udp" -> "PROTOCOL_UDP"
      [] proto = "icmp" -> "PROTOCOL_ICMP"
      [] OTHER -> "PROTOCOL_UNSPECIFIED"

stateStringToEnum(state) ==
    CASE state = "SYN_SENT" -> "CONNECTION_STATE_SYN_SENT"
      [] state = "SYN_RECV" -> "CONNECTION_STATE_SYN_RECV"
      [] state = "ESTABLISHED" -> "CONNECTION_STATE_ESTABLISHED"
      [] state = "FIN_WAIT" -> "CONNECTION_STATE_FIN_WAIT"
      [] state = "CLOSE_WAIT" -> "CONNECTION_STATE_CLOSE_WAIT"
      [] state \in {"LAST_ACK", "TIME_WAIT"} -> "CONNECTION_STATE_TIME_WAIT"
      [] state = "CLOSE" -> "CONNECTION_STATE_CLOSED"
      [] OTHER -> "CONNECTION_STATE_UNSPECIFIED"

\* Variant of convertToProto that maps the counters as for EGRESS whatever the
\* direction is.
convertToProto_NoInversion(event, containerName, containerIP, direction) ==
    [Id |-> event.ID,
     ContainerName |-> containerName,
     ContainerIp |-> containerIP,
     Protocol |-> protoStringToEnum(event.Protocol),
     SourceIp |-> event.SrcIP, SourcePort |-> event.SrcPort,
     DestIp |-> event.DstIP, DestPort |-> event.DstPort,
     State |-> stateStringToEnum(event.State),
     Direction |-> direction,
     FirstSeen |-> event.Timestamp,
     LastSeen |-> event.Timestamp,
     BytesSent |-> event.BytesOrig,
     BytesReceived |-> event.BytesReply,
     PacketsSent |-> event.PacketsOrig,
     PacketsReceived |-> event.PacketsReply]

\* Collector.convertToProto
convertToProto(event, containerName, containerIP, direction) ==
    [Id |-> event.ID,
     ContainerName |-> containerName,
     ContainerIp |-> containerIP,
     Protocol |-> protoStringToEnum(event.Protocol),
     SourceIp |-> event.SrcIP, SourcePort |-> event.SrcPort,
     DestIp |-> event.DstIP, DestPort |-> event.DstPort,
     State |-> stateStringToEnum(event.State),
     Direction |-> direction,
     FirstSeen |-> event.Timestamp,
     LastSeen |-> event.Timestamp,
     BytesSent |-> IF direction = "EGRESS" THEN event.BytesOrig ELSE event.BytesReply,
     BytesReceived |-> IF direction = "EGRESS" THEN event.BytesReply ELSE event.BytesOrig,
     PacketsSent |-> IF direction = "EGRESS" THEN event.PacketsOrig ELSE event.PacketsReply,
     PacketsReceived |-> IF direction = "EGRESS" THEN event.PacketsReply ELSE event.PacketsOrig]

\* emitTrafficEvent: the switch from the conntrack event type to the proto enum.
trafficEventType(eventType) ==
    CASE eventType = "NEW" -> "TRAFFIC_EVENT_TYPE_NEW"
      [] eventType = "UPDATE" -> "TRAFFIC_EVENT_TYPE_UPDATE"
      [] eventType = "DESTROY" -> "TRAFFIC_EVENT_TYPE_DESTROY"
      [] OTHER -> "TRAFFIC_EVENT_TYPE_UNSPECIFIED"

\* Variant of emitTrafficEvent that does not publish DESTROY events.
emitTrafficEvent_SkipsDestroy(pub, eventType, conn) ==
    IF ~emitterPresent \/ eventType = "DESTROY" THEN pub
    ELSE Append(pub, [Type |-> trafficEventType(eventType), Connection |-> conn])

\* Variant of emitTrafficEvent that hands the event over ahead of the earlier
\* ones.
emitTrafficEvent_Prepends(pub, eventType, conn) ==
    IF ~emitterPresent THEN pub
    ELSE <<[Type |-> trafficEventType(eventType), Connection |-> conn]>> \o pub

\* Collector.emitTrafficEvent: nothing without an emitter, else one
\* TrafficEvent (its type and its connection; the wall-clock Timestamp field is
\* left out) handed to emitter.EmitTrafficEvent.
emitTrafficEvent(pub, eventType, conn) ==
    IF ~emitterPresent THEN pub
    ELSE Append(pub, [Type |-> trafficEventType(eventType), Connection |-> conn])

\* Variant of updateConnections that starts from an empty map.
updateConnections_DropsOthers(conns, event, conn) ==
    IF event.Type = "DESTROY" THEN EmptyMap ELSE MapPut(EmptyMap, event.ID, conn)

\* Variant of updateConnections that stores the connection of a DESTROY too.
updateConnections_KeepsDestroyed(conns, event, conn) == MapPut(conns, event.ID, conn)

\* processConntrackEvent, the update of c.connections under c.mu.
updateConnections(conns, event, conn) ==
    IF event.Type = "DESTROY" THEN MapDel(conns, event.ID)
    ELSE MapPut(conns, event.ID, conn)

\* ---------------------------------------------------------------------- store
\* time.Duration.Seconds() converted to int64: truncation towards zero.
DurationSeconds(startedAt, endedAt) ==
    IF endedAt >= startedAt THEN (endedAt - startedAt) \div TicksPerSecond
    ELSE 0 - ((startedAt - endedAt) \div TicksPerSecond)

\* Store.SaveConnection: the row of the INSERT.
connectionRow(conn, rowId, now) ==
    [id |-> rowId,
     container_name |-> conn.ContainerName,
     protocol |-> conn.Protocol,
     source_ip |-> conn.SourceIp, source_port |-> conn.SourcePort,
     dest_ip |-> conn.DestIp, dest_port |-> conn.DestPort,
     direction |-> conn.Direction,
     bytes_sent |-> conn.BytesSent, bytes_received |-> conn.BytesReceived,
     packets_sent |-> conn.PacketsSent, packets_received |-> conn.PacketsReceived,
     started_at |-> conn.FirstSeen,
     ended_at |-> conn.LastSeen,
     duration_seconds |-> DurationSeconds(conn.FirstSeen, conn.LastSeen),
     conntrack_id |-> conn.Id,
     created_at |-> now]

\* Store.initSchema: traffic_connections has one unique constraint, the primary
\* key on id (idx_traffic_conntrack_id is a plain index).
insertConflicts(rows, row) == \E r \in rows : r.id = row.id

\* Store.SaveConnection: INSERT ... ON CONFLICT DO NOTHING.
SaveConnection(rows, conn, rowId, now) ==
    LET row == connectionRow(conn, rowId, now)
    IN IF insertConflicts(rows, row) THEN rows ELSE rows \cup {row}


\* ------------------------------------------------------------------ initial
Stoppers == {"s1", "s2"}

NoParams == [ContainerName |-> "", StartTime |-> 0, EndTime |-> 0, DestIP |-> "",
             DestPort |-> 0, Offset |-> 0, Limit |-> 0]

NoResult == [phase |-> "none", params |-> NoParams, total |-> 0, limit |-> 0,
             rows |-> <<>>, err |-> "none"]

NoCleanup == [calls |-> 0, days |-> 0, at |-> 0, before |-> {}]

NoAggregateParams == [ContainerName |-> "", StartTime |-> 0, EndTime |-> 0, Interval |-> "",
                      GroupByDestIP |-> FALSE, GroupByDestPort |-> FALSE]

NoAggregates == [phase |-> "none", params |-> NoAggregateParams, aggregates |-> <<>>,
                 err |-> "none"]

NoRpc == [phase |-> "none"]

NoMcp == [phase |-> "none"]

\* Variant of newCollectorMonitor that keeps a monitor when opening failed.
newCollectorMonitor_Keeps(openFailed) == TRUE

\* NewCollector: c.monitor is nil when NewConntrackMonitor returned an error.
newCollectorMonitor(openFailed) == ~openFailed

\* NewCollector: the error path calls cancel() on the context it just made.
newCollectorCtxDone(openFailed) == openFailed

\* NewCollector and a fresh database: an empty registry, an empty store, no
\* call of GetConnections or Stop in progress.
InitRegistry ==
    /\ clock = 0
    /\ events = <<>>
    /\ connections = EmptyMap
    /\ mu = "free"
    /\ evCur = NoEvent
    /\ evConn = NoConn
    /\ snapDump = <<>>
    /\ snapIdx = 0
    /\ snapBuild = EmptyMap
    /\ published = <<>>
    /\ persistTasks = {}
    /\ storeRows = {}
    /\ nextRowId = 1
    /\ hLastObserved = [id \in FlowIds |-> "none"]
    /\ hLastAttributed = [id \in FlowIds |-> FALSE]
    /\ hGen = NoGen
    /\ hStale = {}
    /\ hLastWrite = [id \in FlowIds |-> "none"]
    /\ hFirstAttr = [id \in FlowIds |-> 0]
    /\ hEvicted = {}
    /\ hRowFacts = EmptyMap
    /\ mDone = FALSE
    /\ eventsClosed = FALSE
    /\ connClosed = FALSE
    /\ poolClosed = FALSE
    /\ stopPc = [s \in Stoppers |-> "idle"]
    /\ panicked = FALSE
    /\ rdPc = "idle"
    /\ rdArg = ""
    /\ rdDump = <<>>
    /\ rdIdx = 0
    /\ rdBuild = EmptyMap
    /\ rdResult = <<>>
    /\ aggRows = <<>>
    /\ queryResult = NoResult
    /\ hAggCalls = <<>>
    /\ aggregateResult = NoAggregates
    /\ rpc = NoRpc
    /\ mcp = NoMcp
    /\ hLastCleanup = NoCleanup
    /\ hCleanups = 0
    /\ hRdTrace = <<>>

\* NewCollector, NewContainerCache, a fresh database: empty maps, an empty
\* store, no call of GetConnections or Stop in progress.
InitProgram ==
    /\ InitRegistry
    /\ ipToName = EmptyMap
    /\ nameToIP = EmptyMap

\* The data of a collector built while the conntrack table is empty.
InitData ==
    /\ InitProgram
    /\ live = {}
    /\ cnt = [id \in FlowIds |-> [o |-> 0, r |-> 0]]

\* The collector with its conntrack monitor open, after Start: the listener,
\* the refresh loop, the event loop, the snapshot loop and (with a store) the
\* cleanup loop are at their select.
Init ==
    /\ InitData
    /\ storePresent \in BOOLEAN
    /\ emitterPresent = TRUE
    /\ hOpenFailed = FALSE
    /\ monitorPresent = newCollectorMonitor(hOpenFailed)
    /\ ctxDone = newCollectorCtxDone(hOpenFailed)
    /\ listenPc = "running"
    /\ refreshPc = "select"
    /\ evPc = "idle"
    /\ snapPc = "idle"
    /\ cleanupPc = IF storePresent THEN "select" ELSE "none"

\* ------------------------------------------------------- kernel and monitor
\* The kernel reports an event for flow id; LinuxConntrackMonitor.listen hands
\* it to processEvent, which stamps it and sends it without blocking.
Deliver(type, id, counters) ==
    LET flow == [ID |-> id,
                 BytesOrig |-> 100 * counters.o, PacketsOrig |-> counters.o,
                 BytesReply |-> 100 * counters.r, PacketsReply |-> counters.r]
    IN /\ listenPc = "running"
       /\ ~eventsClosed
       /\ clock < MaxClock
       /\ clock' = clock + 1
       /\ events' = sendEvent(events, processEvent(type, flow, clock + 1))

\* A flow enters the conntrack table.  An id whose flow was destroyed can be
\* given to a later flow; the counters reported for an id never decrease.
KernelNew(id) ==
    /\ ~panicked
    /\ id \notin live
    /\ live' = live \cup {id}
    /\ cnt' = cnt
    /\ Deliver("NEW", id, cnt[id])
    /\ UNCHANGED <<lifeVars, cacheVars, storePresent, connections, mu, evVars, snapVars,
                   published, persistTasks, storeVars, histVars>>

\* A flow of the table carries traffic (dir names the counter that grows).
KernelUpdate(id, dir) ==
    /\ ~panicked
    /\ id \in live
    /\ dir = "o" => cnt[id].o < MaxCount
    /\ dir = "r" => cnt[id].r < MaxCount
    /\ LET c == [o |-> IF dir = "o" THEN cnt[id].o + 1 ELSE cnt[id].o,
                 r |-> IF dir = "r" THEN cnt[id].r + 1 ELSE cnt[id].r]
       IN /\ cnt' = [cnt EXCEPT ![id] = c]
          /\ Deliver("UPDATE", id, c)
    /\ live' = live
    /\ UNCHANGED <<lifeVars, cacheVars, storePresent, connections, mu, evVars, snapVars,
                   published, persistTasks, storeVars, histVars>>

\* A flow leaves the conntrack table.
KernelDestroy(id) ==
    /\ ~panicked
    /\ id \in live
    /\ live' = live \ {id}
    /\ cnt' = cnt
    /\ Deliver("DESTROY", id, cnt[id])
    /\ UNCHANGED <<lifeVars, cacheVars, storePresent, connections, mu, evVars, snapVars,
                   published, persistTasks, storeVars, histVars>>

\* ---------------------------------------------------------- container cache
\* ContainerCache.Refresh with a successful ListContainers.
CacheRefresh(containers) ==
    /\ ~panicked
    /\ refreshPc \in {"initial", "select"}
    /\ refreshPc' = "select"
    /\ ipToName' = buildIpToName(containers)
    /\ nameToIP' = buildNameToIP(containers)
    /\ hGen' = IF evPc = "lookupDst"
               THEN IF hGen.refreshes = 0
                    THEN [hGen EXCEPT !.refreshes = 1]
                    ELSE [before |-> EmptyMap, refreshes |-> 2]
               ELSE hGen
    /\ UNCHANGED <<configVars, apiVars, monitorVars, ctxDone, cleanupPc, hCleanups, stopVars,
                   rdVars, dbVars, clock, kernelVars, events, storePresent, connections,
                   mu, evVars, snapVars, published, persistTasks, storeVars,
                   hLastObserved, hLastAttributed, hLastWrite, hFirstAttr, hEvicted,
                   hRowFacts,
                   hStale>>

\* ---------------------------------------------------------------- event loop
\* handleConntrackEvents receives an event; processConntrackEvent looks the
\* source address up (first read lock of the cache).
EvRecv ==
    /\ ~panicked
    /\ evPc = "idle"
    /\ events # <<>>
    /\ LET event == Head(events)
           name == lookupSrc(event)
       IN /\ events' = Tail(events)
          /\ evCur' = event
          /\ hLastObserved' = [hLastObserved EXCEPT ![event.ID] = event.Type]
          /\ hLastAttributed' = [hLastAttributed EXCEPT ![event.ID] = name # ""]
          /\ IF name # ""
             THEN /\ evConn' = convertToProto(event, name, event.SrcIP, "EGRESS")
                  /\ evPc' = "update"
                  /\ hGen' = NoGen
             ELSE /\ evConn' = NoConn
                  /\ evPc' = "lookupDst"
                  /\ hGen' = [before |-> ipToName, refreshes |-> 0]
    /\ UNCHANGED <<lifeVars, clock, kernelVars, cacheVars, storePresent, connections, mu, snapVars,
                   published, persistTasks, storeVars, hLastWrite, hFirstAttr, hEvicted,
                   hRowFacts,
                   hStale>>

\* processConntrackEvent looks the destination address up (second read lock);
\* an event of no container is skipped.
EvLookupDst ==
    /\ ~panicked
    /\ evPc = "lookupDst"
    /\ LET name == lookupDst(evCur)
       IN /\ hLastAttributed' = [hLastAttributed EXCEPT ![evCur.ID] = name # ""]
          /\ hGen' = NoGen
          /\ IF ~skipEvent(name)
             THEN /\ evConn' = convertToProto(evCur, name, evCur.DstIP, "INGRESS")
                  /\ evPc' = "update"
                  /\ evCur' = evCur
             ELSE /\ evConn' = NoConn
                  /\ evPc' = "idle"
                  /\ evCur' = NoEvent
    /\ UNCHANGED <<lifeVars, clock, kernelVars, events, cacheVars, storePresent, connections, mu,
                   snapVars, published, persistTasks, storeVars, hLastObserved,
                   hLastWrite, hFirstAttr, hEvicted, hRowFacts,
                   hStale>>

\* processConntrackEvent updates c.connections under c.mu, emits the traffic
\* event and, for a DESTROY with a store, starts the SaveConnection goroutine.
\* (Emitting and starting the goroutine touch nothing another step reads before
\* the goroutine runs, so they are taken together with the update.)
EvUpdate ==
    /\ ~panicked
    /\ evPc = "update"
    /\ mu = "free"
    /\ connections' = updateConnections(connections, evCur, evConn)
    /\ published' = emitTrafficEvent(published, evCur.Type, evConn)
    /\ persistTasks' =
         IF evCur.Type = "DESTROY" /\ storePresent
         THEN persistTasks \cup
                {[conn |-> evConn,
                  h |-> [wasActive |-> evCur.ID \in DOMAIN connections,
                         firstAttr |-> hFirstAttr[evCur.ID],
                         event |-> evCur]]}
         ELSE persistTasks
    /\ hLastWrite' = [hLastWrite EXCEPT ![evCur.ID] = evCur.Type]
    /\ hStale' = IF evCur.Type = "DESTROY" /\ snapPc = "lock"
                 THEN hStale \cup {evCur.ID}
                 ELSE hStale \ {evCur.ID}
    /\ hFirstAttr' = [hFirstAttr EXCEPT ![evCur.ID] =
                        IF evCur.Type = "DESTROY" THEN 0
                        ELSE IF evCur.ID \in DOMAIN connections THEN @
                        ELSE evCur.Timestamp]
    /\ evPc' = "idle"
    /\ evCur' = NoEvent
    /\ evConn' = NoConn
    /\ UNCHANGED <<lifeVars, clock, kernelVars, events, cacheVars, storePresent, mu, snapVars,
                   storeVars, hLastObserved, hLastAttributed, hGen, hEvicted, hRowFacts>>

\* ------------------------------------------------------------- takeSnapshot
\* takeSnapshot calls monitor.Snapshot(), before it takes c.mu.
SnapDump ==
    /\ ~panicked
    /\ snapPc = "idle"
    /\ clock < MaxClock
    /\ clock' = clock + 1
    /\ snapDump' = Snapshot(live, clock + 1)
    /\ snapPc' = "lock"
    /\ UNCHANGED <<lifeVars, kernelVars, events, cacheVars, storePresent, connections, mu, evVars,
                   snapIdx, snapBuild, published, persistTasks, storeVars, histVars>>

\* Variant of onSnapshotError that has cleared the registry before the call.
onSnapshotError_Clears(conns) == EmptyMap

\* takeSnapshot with a failing monitor.Snapshot(): it logs the error and
\* returns before c.mu is taken and before c.connections is assigned.
onSnapshotError(conns) == conns

\* A tick of the snapshot ticker whose monitor.Snapshot() call fails;
\* periodicSnapshot goes back to its select.
SnapDumpFails ==
    /\ ~panicked
    /\ snapPc = "idle"
    /\ clock < MaxClock
    /\ clock' = clock + 1
    /\ connections' = onSnapshotError(connections)
    /\ snapPc' = "idle"
    /\ UNCHANGED <<lifeVars, kernelVars, events, cacheVars, storePresent, mu, evVars,
                   snapDump, snapIdx, snapBuild, published, persistTasks, storeVars, histVars>>

\* takeSnapshot takes c.mu and starts from an empty map.
SnapLock ==
    /\ ~panicked
    /\ snapPc = "lock"
    /\ mu = "free"
    /\ mu' = "snap"
    /\ snapBuild' = EmptyMap
    /\ snapIdx' = 1
    /\ snapPc' = "src"
    /\ UNCHANGED <<lifeVars, clock, kernelVars, events, cacheVars, storePresent, connections, evVars,
                   snapDump, published, persistTasks, storeVars, histVars>>

\* The range loop of takeSnapshot looks the source address of an entry up.
SnapLookupSrc ==
    /\ ~panicked
    /\ snapPc = "src"
    /\ snapIdx <= Len(snapDump)
    /\ LET event == snapDump[snapIdx]
           name == lookupSrc(event)
       IN IF name # ""
          THEN /\ snapBuild' = MapPut(snapBuild, event.ID,
                                      convertToProto(event, name, event.SrcIP, "EGRESS"))
               /\ snapIdx' = snapIdx + 1
               /\ snapPc' = "src"
          ELSE /\ snapBuild' = snapBuild
               /\ snapIdx' = snapIdx
               /\ snapPc' = "dst"
    /\ UNCHANGED <<lifeVars, clock, kernelVars, events, cacheVars, storePresent, connections, mu,
                   evVars, snapDump, published, persistTasks, storeVars, histVars>>

\* The range loop looks the destination address up; no container: continue.
SnapLookupDst ==
    /\ ~panicked
    /\ snapPc = "dst"
    /\ LET event == snapDump[snapIdx]
           name == lookupDst(event)
       IN snapBuild' = IF ~skipEvent(name)
                       THEN MapPut(snapBuild, event.ID,
                                   convertToProto(event, name, event.DstIP, "INGRESS"))
                       ELSE snapBuild
    /\ snapIdx' = snapIdx + 1
    /\ snapPc' = "src"
    /\ UNCHANGED <<lifeVars, clock, kernelVars, events, cacheVars, storePresent, connections, mu,
                   evVars, snapDump, published, persistTasks, storeVars, histVars>>

\* Variant of reconciled that rebuilds into the old map without clearing it.
reconciled_KeepsOld(old, rebuilt) ==
    [x \in DOMAIN old \cup DOMAIN rebuilt |->
        IF x \in DOMAIN rebuilt THEN rebuilt[x] ELSE old[x]]

\* The map that takeSnapshot leaves in c.connections: the rebuilt one only.
reconciled(old, rebuilt) == rebuilt

\* takeSnapshot returns: the deferred Unlock publishes the rebuilt map.
SnapUnlock ==
    /\ ~panicked
    /\ snapPc = "src"
    /\ snapIdx > Len(snapDump)
    /\ connections' = reconciled(connections, snapBuild)
    /\ mu' = "free"
    /\ snapPc' = "idle"
    /\ snapDump' = <<>>
    /\ snapIdx' = 0
    /\ snapBuild' = EmptyMap
    /\ hLastWrite' = [id \in FlowIds |->
                        IF id \in DOMAIN snapBuild THEN "SNAP_IN"
                        ELSE IF \E i \in 1..Len(snapDump) : snapDump[i].ID = id
                             THEN "SNAP_DROP"
                             ELSE "SNAP_OUT"]
    /\ hFirstAttr' = [id \in FlowIds |->
                        IF id \in DOMAIN connections' 
                        THEN IF id \in DOMAIN connections THEN hFirstAttr[id]
                             ELSE connections'[id].FirstSeen
                        ELSE 0]
    /\ hEvicted' = {id \in DOMAIN connections :
                       /\ hLastWrite[id] \in {"NEW", "UPDATE"}
                       /\ \A i \in 1..Len(snapDump) : snapDump[i].ID # id}
    /\ hStale' = {}
    /\ UNCHANGED <<lifeVars, clock, kernelVars, events, cacheVars, storePresent, evVars,
                   published, persistTasks, storeVars, hLastObserved, hLastAttributed, hGen,
                   hRowFacts>>

\* --------------------------------------------------------- persist goroutine
\* The goroutine started by processConntrackEvent runs store.SaveConnection.
PersistRun(task) ==
    /\ ~panicked
    /\ task \in persistTasks
    /\ persistTasks' = persistTasks \ {task}
    /\ storeRows' = SaveConnection(storeRows, task.conn, nextRowId, clock)
    /\ nextRowId' = nextRowId + 1
    /\ hRowFacts' = MapPut(hRowFacts, nextRowId, task.h)
    /\ UNCHANGED <<lifeVars, clock, kernelVars, events, cacheVars, storePresent, connections, mu,
                   evVars, snapVars, published, hLastObserved, hLastAttributed, hGen,
                   hLastWrite, hFirstAttr, hEvicted,
                   hStale>>

\* ------------------------------------------------------------- Store.Cleanup
\* Variant of Cleanup that also deletes the rows inserted exactly at the cutoff.
Cleanup_Inclusive(rows, now, retentionDays) ==
    {r \in rows : ~(r.created_at <= now - retentionDays * TicksPerDay)}

\* Store.Cleanup: cutoff := time.Now().AddDate(0, 0, -retentionDays);
\* DELETE FROM traffic_connections WHERE created_at < cutoff.
Cleanup(rows, now, retentionDays) ==
    {r \in rows : ~(r.created_at < now - retentionDays * TicksPerDay)}

\* ------------------------------------------------------------ Collector.Start
\* Start starts the refresh loop, the event loop (with a monitor), the
\* snapshot loop (which returns at once without a monitor) and, with a store,
\* the cleanup loop.  A goroutine does nothing before it is started, so the
\* four go statements are taken together.
Start ==
    /\ ~panicked
    /\ refreshPc = "none"
    /\ refreshPc' = "initial"
    /\ evPc' = IF monitorPresent THEN "idle" ELSE "none"
    /\ snapPc' = IF monitorPresent THEN "idle" ELSE "exited"
    /\ cleanupPc' = IF storePresent THEN "select" ELSE "none"
    /\ UNCHANGED <<configVars, apiVars, monitorVars, ctxDone, hCleanups, stopVars, rdVars, dbVars,
                   clock, kernelVars, events, cacheVars, storePresent, connections, mu,
                   evCur, evConn, snapDump, snapIdx, snapBuild, published, persistTasks,
                   storeVars, histVars>>

\* Variant of onListError that leaves an empty map behind.
onListError_Clears(m) == EmptyMap

\* ContainerCache.Refresh returns the error of ListContainers before it
\* takes the lock: the map is what it was.
onListError(m) == m

\* ContainerCache.Refresh with a failing ListContainers: the maps are kept.
CacheRefreshFails ==
    /\ ~panicked
    /\ refreshPc \in {"initial", "select"}
    /\ refreshPc' = "select"
    /\ ipToName' = onListError(ipToName)
    /\ nameToIP' = onListError(nameToIP)
    /\ UNCHANGED <<configVars, apiVars, monitorVars, ctxDone, cleanupPc, hCleanups, stopVars,
                   rdVars, dbVars, clock, kernelVars, events, storePresent,
                   connections, mu, evVars, snapVars, published, persistTasks, storeVars,
                   histVars>>

\* StartRefresh: case <-ctx.Done().
RefreshExit ==
    /\ ~panicked
    /\ refreshPc = "select"
    /\ ctxDone
    /\ refreshPc' = "exited"
    /\ UNCHANGED <<configVars, apiVars, monitorVars, ctxDone, cleanupPc, hCleanups, stopVars,
                   rdVars, dbVars, clock, kernelVars, events, cacheVars, storePresent,
                   connections, mu, evVars, snapVars, published, persistTasks, storeVars,
                   histVars>>

\* handleConntrackEvents: case <-c.ctx.Done(), or the receive finds the
\* channel closed and drained.
EvExit ==
    /\ ~panicked
    /\ evPc = "idle"
    /\ ctxDone \/ (eventsClosed /\ events = <<>>)
    /\ evPc' = "exited"
    /\ UNCHANGED <<lifeVars, clock, kernelVars, events, cacheVars, storePresent,
                   connections, mu, evCur, evConn, snapVars, published, persistTasks,
                   storeVars, histVars>>

\* periodicSnapshot: case <-c.ctx.Done().
SnapExit ==
    /\ ~panicked
    /\ snapPc = "idle"
    /\ ctxDone
    /\ snapPc' = "exited"
    /\ UNCHANGED <<lifeVars, clock, kernelVars, events, cacheVars, storePresent,
                   connections, mu, evVars, snapDump, snapIdx, snapBuild, published,
                   persistTasks, storeVars, histVars>>

\* periodicCleanup: case <-ticker.C runs store.Cleanup(c.ctx, RetentionDays);
\* the statement fails without touching the table when c.ctx is cancelled or
\* the pool is closed.
CleanupTick ==
    /\ ~panicked
    /\ cleanupPc = "select"
    /\ hCleanups < MaxCleanups
    /\ hCleanups' = hCleanups + 1
    /\ storeRows' = IF ctxDone \/ poolClosed THEN storeRows
                    ELSE Cleanup(storeRows, clock, RetentionDays)
    /\ UNCHANGED <<configVars, apiVars, monitorVars, ctxDone, refreshPc, cleanupPc, stopVars,
                   rdVars, dbVars, clock, kernelVars, events, cacheVars, storePresent,
                   connections, mu, evVars, snapVars, published, persistTasks, nextRowId,
                   histVars>>

\* periodicCleanup: case <-c.ctx.Done().
CleanupExit ==
    /\ ~panicked
    /\ cleanupPc = "select"
    /\ ctxDone
    /\ cleanupPc' = "exited"
    /\ UNCHANGED <<configVars, apiVars, monitorVars, ctxDone, refreshPc, hCleanups, stopVars,
                   rdVars, dbVars, clock, kernelVars, events, cacheVars, storePresent,
                   connections, mu, evVars, snapVars, published, persistTasks, storeVars,
                   histVars>>

\* LinuxConntrackMonitor.listen: case <-m.ctx.Done().
ListenExit ==
    /\ ~panicked
    /\ listenPc = "running"
    /\ mDone
    /\ listenPc' = "exited"
    /\ UNCHANGED <<configVars, apiVars, mDone, eventsClosed, connClosed, loopVars, stopVars,
                   rdVars, dbVars, clock, kernelVars, events, cacheVars, storePresent,
                   connections, mu, evVars, snapVars, published, persistTasks, storeVars,
                   histVars>>

\* listen takes a kernel event (select may choose it although m.ctx is done) and
\* processEvent sends it on the closed channel: the send panics.
ListenSendClosed ==
    /\ ~panicked
    /\ listenPc = "running"
    /\ eventsClosed
    /\ panicked' = TRUE
    /\ UNCHANGED <<configVars, apiVars, monitorVars, loopVars, stopPc, rdVars, dbVars, clock,
                   kernelVars, events, cacheVars, storePresent, connections, mu, evVars,
                   snapVars, published, persistTasks, storeVars, histVars>>

\* ------------------------------------------------------------- Collector.Stop
\* Stop: c.cancel(); without a monitor Stop returns.
StopCancel(s) ==
    /\ ~panicked
    /\ stopPc[s] = "idle"
    /\ ctxDone' = TRUE
    /\ stopPc' = [stopPc EXCEPT ![s] = IF monitorPresent THEN "close" ELSE "done"]
    /\ UNCHANGED <<configVars, apiVars, monitorVars, refreshPc, cleanupPc, hCleanups, panicked,
                   rdVars, dbVars, clock, kernelVars, events, cacheVars, storePresent,
                   connections, mu, evVars, snapVars, published, persistTasks, storeVars,
                   histVars>>

\* LinuxConntrackMonitor.Close: m.cancel().
CloseCancel(s) ==
    /\ ~panicked
    /\ stopPc[s] = "close"
    /\ mDone' = TRUE
    /\ stopPc' = [stopPc EXCEPT ![s] = "closeEvents"]
    /\ UNCHANGED <<configVars, apiVars, eventsClosed, connClosed, listenPc, loopVars, panicked,
                   rdVars, dbVars, clock, kernelVars, events, cacheVars, storePresent,
                   connections, mu, evVars, snapVars, published, persistTasks, storeVars,
                   histVars>>

\* LinuxConntrackMonitor.Close: close(m.events); closing a closed channel panics.
CloseEvents(s) ==
    /\ ~panicked
    /\ stopPc[s] = "closeEvents"
    /\ IF eventsClosed
       THEN /\ panicked' = TRUE
            /\ stopPc' = [stopPc EXCEPT ![s] = "panicked"]
            /\ eventsClosed' = eventsClosed
       ELSE /\ panicked' = panicked
            /\ stopPc' = [stopPc EXCEPT ![s] = "closeConn"]
            /\ eventsClosed' = TRUE
    /\ UNCHANGED <<configVars, apiVars, mDone, connClosed, listenPc, loopVars, rdVars, dbVars,
                   clock, kernelVars, events, cacheVars, storePresent, connections, mu,
                   evVars, snapVars, published, persistTasks, storeVars, histVars>>

\* LinuxConntrackMonitor.Close: return m.conn.Close(); Stop returns.
CloseConn(s) ==
    /\ ~panicked
    /\ stopPc[s] = "closeConn"
    /\ connClosed' = TRUE
    /\ stopPc' = [stopPc EXCEPT ![s] = "done"]
    /\ UNCHANGED <<configVars, apiVars, mDone, eventsClosed, listenPc, loopVars, panicked,
                   rdVars, dbVars, clock, kernelVars, events, cacheVars, storePresent,
                   connections, mu, evVars, snapVars, published, persistTasks, storeVars,
                   histVars>>

\* ---------------------------------------------------- Collector.GetConnections
\* Arguments a caller passes as containerName.
ReadArgs == {"", "a"}

\* ContainerCache.Size
Size == Cardinality(DOMAIN nameToIP)

\* The sequences that list every element of S once (Go ranges over a map in
\* an unspecified order).
Orderings(S) ==
    {f \in [1..Cardinality(S) -> S] : \A x \in S : \E i \in 1..Cardinality(S) : f[i] = x}

\* Variant of filterConnections that ignores the container name.
filterConnections_All(conns, containerName) == {conns[k] : k \in DOMAIN conns}

\* GetConnections, the loop over c.connections under the read lock.
filterConnections(conns, containerName) ==
    {conns[k] : k \in {x \in DOMAIN conns :
                          containerName = "" \/ conns[x].ContainerName = containerName}}

\* Where GetConnections goes after the cache check: takeSnapshot with a
\* monitor, the read without one.
rdAfterRefresh == IF monitorPresent THEN "dump" ELSE "read"

\* Collector.IsAvailable
IsAvailable == monitorPresent

\* Collector.Error
Error == IF ~monitorPresent THEN "conntrack monitoring unavailable: not supported" ELSE ""

\* GetConnections is called: c.cache.Size() decides whether to refresh.
RdCall(containerName) ==
    /\ ~panicked
    /\ rdPc \in {"idle", "done"}
    /\ rdArg' = containerName
    /\ hRdTrace' = IF Size = 0 THEN <<"empty">> ELSE <<>>
    /\ rdPc' = IF Size = 0 THEN "refresh" ELSE rdAfterRefresh
    /\ rdResult' = <<>>
    /\ UNCHANGED <<configVars, apiVars, monitorVars, loopVars, stopVars, rdDump, rdIdx, rdBuild,
                   dbVars, clock, kernelVars, events, cacheVars, storePresent,
                   connections, mu, evVars, snapVars, published, persistTasks, storeVars,
                   histVars>>

\* GetConnections: c.cache.Refresh() with a successful ListContainers.
RdRefresh(containers) ==
    /\ ~panicked
    /\ rdPc = "refresh"
    /\ ipToName' = buildIpToName(containers)
    /\ nameToIP' = buildNameToIP(containers)
    /\ hRdTrace' = Append(hRdTrace, "refresh")
    /\ rdPc' = rdAfterRefresh
    /\ UNCHANGED <<configVars, apiVars, monitorVars, loopVars, stopVars, rdArg, rdDump, rdIdx,
                   rdBuild, rdResult, dbVars, clock, kernelVars, events, storePresent,
                   connections, mu, evVars, snapVars, published, persistTasks, storeVars,
                   histVars>>

\* GetConnections: c.cache.Refresh() with a failing ListContainers (the error
\* is dropped).
RdRefreshFails ==
    /\ ~panicked
    /\ rdPc = "refresh"
    /\ hRdTrace' = Append(hRdTrace, "refresh")
    /\ rdPc' = rdAfterRefresh
    /\ UNCHANGED <<configVars, apiVars, monitorVars, loopVars, stopVars, rdArg, rdDump, rdIdx,
                   rdBuild, rdResult, dbVars, clock, kernelVars, events, cacheVars,
                   storePresent, connections, mu, evVars, snapVars, published,
                   persistTasks, storeVars, histVars>>

\* GetConnections -> takeSnapshot: monitor.Snapshot(), before c.mu is taken.
RdDump ==
    /\ ~panicked
    /\ rdPc = "dump"
    /\ clock < MaxClock
    /\ clock' = clock + 1
    /\ rdDump' = Snapshot(live, clock + 1)
    /\ hRdTrace' = Append(hRdTrace, "snapshot")
    /\ rdPc' = "lock"
    /\ UNCHANGED <<configVars, apiVars, monitorVars, loopVars, stopVars, rdArg, rdIdx, rdBuild,
                   rdResult, dbVars, kernelVars, events, cacheVars, storePresent,
                   connections, mu, evVars, snapVars, published, persistTasks, storeVars,
                   histVars>>

\* GetConnections -> takeSnapshot: monitor.Snapshot() returns an error;
\* takeSnapshot logs it and returns.
RdDumpFails ==
    /\ ~panicked
    /\ rdPc = "dump"
    /\ hRdTrace' = Append(hRdTrace, "snapshot_failed")
    /\ rdPc' = "read"
    /\ UNCHANGED <<configVars, apiVars, monitorVars, loopVars, stopVars, rdArg, rdDump, rdIdx,
                   rdBuild, rdResult, dbVars, clock, kernelVars, events, cacheVars,
                   storePresent, connections, mu, evVars, snapVars, published,
                   persistTasks, storeVars, histVars>>

\* GetConnections -> takeSnapshot takes c.mu and starts from an empty map.
RdLock ==
    /\ ~panicked
    /\ rdPc = "lock"
    /\ mu = "free"
    /\ mu' = "reader"
    /\ rdBuild' = EmptyMap
    /\ rdIdx' = 1
    /\ rdPc' = "src"
    /\ UNCHANGED <<configVars, apiVars, monitorVars, loopVars, stopVars, rdArg, rdDump, rdResult,
                   hRdTrace, dbVars, clock, kernelVars, events, cacheVars, storePresent,
                   connections, evVars, snapVars, published, persistTasks, storeVars,
                   histVars>>

\* GetConnections -> takeSnapshot, the range loop: source address lookup.
RdLookupSrc ==
    /\ ~panicked
    /\ rdPc = "src"
    /\ rdIdx <= Len(rdDump)
    /\ LET event == rdDump[rdIdx]
           name == lookupSrc(event)
       IN IF name # ""
          THEN /\ rdBuild' = MapPut(rdBuild, event.ID,
                                    convertToProto(event, name, event.SrcIP, "EGRESS"))
               /\ rdIdx' = rdIdx + 1
               /\ rdPc' = "src"
          ELSE /\ rdBuild' = rdBuild
               /\ rdIdx' = rdIdx
               /\ rdPc' = "dst"
    /\ UNCHANGED <<configVars, apiVars, monitorVars, loopVars, stopVars, rdArg, rdDump, rdResult,
                   hRdTrace, dbVars, clock, kernelVars, events, cacheVars, storePresent,
                   connections, mu, evVars, snapVars, published, persistTasks, storeVars,
                   histVars>>

\* GetConnections -> takeSnapshot, the range loop: destination address lookup.
RdLookupDst ==
    /\ ~panicked
    /\ rdPc = "dst"
    /\ LET event == rdDump[rdIdx]
           name == lookupDst(event)
       IN rdBuild' = IF ~skipEvent(name)
                     THEN MapPut(rdBuild, event.ID,
                                 convertToProto(event, name, event.DstIP, "INGRESS"))
                     ELSE rdBuild
    /\ rdIdx' = rdIdx + 1
    /\ rdPc' = "src"
    /\ UNCHANGED <<configVars, apiVars, monitorVars, loopVars, stopVars, rdArg, rdDump, rdResult,
                   hRdTrace, dbVars, clock, kernelVars, events, cacheVars, storePresent,
                   connections, mu, evVars, snapVars, published, persistTasks, storeVars,
                   histVars>>

\* GetConnections -> takeSnapshot returns: the deferred Unlock publishes the
\* rebuilt map.
RdUnlock ==
    /\ ~panicked
    /\ rdPc = "src"
    /\ rdIdx > Len(rdDump)
    /\ connections' = reconciled(connections, rdBuild)
    /\ mu' = "free"
    /\ rdPc' = "read"
    /\ rdDump' = <<>>
    /\ rdIdx' = 0
    /\ rdBuild' = EmptyMap
    /\ hRdTrace' = Append(hRdTrace, "replace_all")
    /\ hLastWrite' = [id \in FlowIds |->
                        IF id \in DOMAIN rdBuild THEN "SNAP_IN"
                        ELSE IF \E i \in 1..Len(rdDump) : rdDump[i].ID = id
                             THEN "SNAP_DROP"
                             ELSE "SNAP_OUT"]
    /\ hFirstAttr' = [id \in FlowIds |->
                        IF id \in DOMAIN connections'
                        THEN IF id \in DOMAIN connections THEN hFirstAttr[id]
                             ELSE connections'[id].FirstSeen
                        ELSE 0]
    /\ hEvicted' = {id \in DOMAIN connections :
                       /\ hLastWrite[id] \in {"NEW", "UPDATE"}
                       /\ \A i \in 1..Len(rdDump) : rdDump[i].ID # id}
    /\ UNCHANGED <<configVars, apiVars, monitorVars, loopVars, stopVars, rdArg, rdResult, dbVars,
                   clock, kernelVars, events, cacheVars, storePresent, evVars, snapVars,
                   published, persistTasks, storeVars, hLastObserved, hLastAttributed, hGen,
                   hRowFacts,
                   hStale>>

\* What c.connections holds in memory: takeSnapshot assigns an empty map to
\* it under c.mu and fills it entry by entry, so while a reconciliation holds
\* c.mu it is the map rebuilt so far.
registryInMemory ==
    CASE mu = "snap" -> snapBuild
      [] mu = "reader" -> rdBuild
      [] OTHER -> connections

\* Variant of RLock that does not wait for the writer.
RLock_NoWait(m) == TRUE

\* c.mu.RLock() can be taken: no writer holds c.mu.
RLock(m) == m = "free"

\* GetConnections: the loop over c.connections under the read lock, and the
\* return.
RdRead ==
    /\ ~panicked
    /\ rdPc = "read"
    /\ RLock(mu)
    /\ rdResult' \in Orderings(filterConnections(registryInMemory, rdArg))
    /\ hRdTrace' = Append(hRdTrace, "read")
    /\ rdPc' = "done"
    /\ UNCHANGED <<configVars, apiVars, monitorVars, loopVars, stopVars, rdArg, rdDump, rdIdx,
                   rdBuild, dbVars, clock, kernelVars, events, cacheVars, storePresent,
                   connections, mu, evVars, snapVars, published, persistTasks, storeVars,
                   histVars>>

\* ------------------------------------------------------------ specification
Next ==
    \/ \E id \in FlowIds : KernelNew(id)
    \/ \E id \in FlowIds, dir \in {"o", "r"} : KernelUpdate(id, dir)
    \/ \E id \in FlowIds : KernelDestroy(id)
    \/ \E containers \in Inventories : CacheRefresh(containers)
    \/ EvRecv
    \/ EvLookupDst
    \/ EvUpdate
    \/ SnapDump
    \/ SnapLock
    \/ SnapLookupSrc
    \/ SnapLookupDst
    \/ SnapUnlock
    \/ \E task \in persistTasks : PersistRun(task)

Spec == Init /\ [][Next]_vars

\* ------------------------------------------------- the store, called directly
\* Connections a caller can hand to SaveConnection: completed flows of
\* container a, as convertToProto builds them from DESTROY events.
StoreFlows ==
    { convertToProto(
          processEvent("DESTROY",
                       [ID |-> id, BytesOrig |-> 100 * o, PacketsOrig |-> o,
                        BytesReply |-> 100 * r, PacketsReply |-> r], ts),
          "a", IpA, IF FlowTuple(id).SrcIP = IpA THEN "EGRESS" ELSE "INGRESS") :
        id \in FlowIds, o \in 0..MaxCount, r \in 0..MaxCount, ts \in 1..MaxClock }

InitStore == Init /\ storePresent = TRUE

\* A call of Store.SaveConnection.
StoreSave(conn) ==
    /\ nextRowId <= MaxStoreCalls
    /\ storeRows' = SaveConnection(storeRows, conn, nextRowId, clock)
    /\ nextRowId' = nextRowId + 1
    /\ UNCHANGED <<lifeVars, clock, kernelVars, events, cacheVars, storePresent, connections, mu,
                   evVars, snapVars, published, persistTasks, histVars>>

NextStore == \E conn \in StoreFlows : StoreSave(conn)

SpecStore == InitStore /\ [][NextStore]_vars

\* ------------------------------------------------------ the retention job
\* Store.SaveAggregate: the row of the INSERT; a NULL dest_ip is written "" and
\* a NULL dest_port 0 (the values the code turns into NULL).
aggregateRow(agg, containerName, intervalEnd) ==
    [container_name |-> containerName,
     dest_ip |-> agg.DestIp,
     dest_port |-> IF agg.DestPort > 0 THEN agg.DestPort ELSE 0,
     interval_start |-> agg.Timestamp,
     interval_end |-> intervalEnd,
     bytes_sent |-> agg.BytesSent,
     bytes_received |-> agg.BytesReceived,
     connection_count |-> agg.ConnectionCount]

\* Store.initSchema: UNIQUE(container_name, dest_ip, dest_port, interval_start);
\* a row with a NULL in one of these columns conflicts with no row.
aggregateConflict(old, new) ==
    /\ old.container_name = new.container_name
    /\ old.dest_ip = new.dest_ip /\ new.dest_ip # ""
    /\ old.dest_port = new.dest_port /\ new.dest_port # 0
    /\ old.interval_start = new.interval_start

\* Store.SaveAggregate: INSERT ... ON CONFLICT (...) DO UPDATE SET the sums.
SaveAggregate(rows, agg, containerName, intervalEnd) ==
    LET new == aggregateRow(agg, containerName, intervalEnd)
    IN IF \E i \in 1..Len(rows) : aggregateConflict(rows[i], new)
       THEN [i \in 1..Len(rows) |->
               IF aggregateConflict(rows[i], new)
               THEN [rows[i] EXCEPT
                       !.bytes_sent = @ + new.bytes_sent,
                       !.bytes_received = @ + new.bytes_received,
                       !.connection_count = @ + new.connection_count]
               ELSE rows[i]]
       ELSE Append(rows, new)

\* The flows saved in the runs of the retention job: one completed flow.
CleanupFlows == {c \in StoreFlows : c.Id = 1 /\ c.FirstSeen = 1 /\ c.BytesSent = 0
                                       /\ c.BytesReceived = 0}

\* The aggregates saved in the runs of the retention job.
CleanupAggregates ==
    {[DestIp |-> IpB, DestPort |-> 443, Timestamp |-> 0, BytesSent |-> 100,
      BytesReceived |-> 0, ConnectionCount |-> 1]}

\* The retentionDays arguments of the runs.
CleanupDays == 0..MaxDays

RECURSIVE SumConnectionCount(_)
SumConnectionCount(rows) ==
    IF rows = <<>> THEN 0
    ELSE rows[1].connection_count + SumConnectionCount(Tail(rows))

\* Time passes: a tick, or a day.
StoreAdvance(dt) ==
    /\ dt = 1 => clock % TicksPerDay < MaxDayTicks
    /\ dt = TicksPerDay => clock \div TicksPerDay < MaxDays
    /\ clock' = clock + dt
    /\ UNCHANGED <<lifeVars, kernelVars, events, cacheVars, storePresent, connections, mu,
                   evVars, snapVars, published, persistTasks, storeVars, histVars>>

\* A call of Store.SaveAggregate.
StoreSaveAggregate(agg) ==
    /\ SumConnectionCount(aggRows) < MaxAggCalls
    /\ aggRows' = SaveAggregate(aggRows, agg, "a", agg.Timestamp + TicksPerHour)
    /\ hAggCalls' = Append(hAggCalls, [agg |-> agg, containerName |-> "a"])
    /\ UNCHANGED <<configVars, apiVars, monitorVars, loopVars, stopVars, rdVars, poolClosed,
                   queryResult, hLastCleanup, clock, kernelVars, events, cacheVars,
                   storePresent, connections, mu, evVars, snapVars, published,
                   persistTasks, storeVars, histVars>>

\* A call of Store.Cleanup.
StoreCleanup(retentionDays) ==
    /\ storeRows' = Cleanup(storeRows, clock, retentionDays)
    /\ hLastCleanup' = [calls |-> 1 - hLastCleanup.calls, days |-> retentionDays,
                        at |-> clock, before |-> storeRows]
    /\ UNCHANGED <<configVars, apiVars, monitorVars, loopVars, stopVars, rdVars, poolClosed, hAggCalls,
                   aggRows, queryResult, clock, kernelVars, events, cacheVars,
                   storePresent, connections, mu, evVars, snapVars, published,
                   persistTasks, nextRowId, histVars>>

NextCleanup ==
    \/ \E conn \in CleanupFlows : StoreSave(conn)
    \/ \E agg \in CleanupAggregates : StoreSaveAggregate(agg)
    \/ \E dt \in {1, TicksPerDay} : StoreAdvance(dt)
    \/ \E retentionDays \in CleanupDays : StoreCleanup(retentionDays)

SpecCleanup == InitStore /\ [][NextCleanup]_vars

\* ------------------------------------------------------ the history query
\* Variant of whereClause without the dest_port filter.
whereClause_IgnoresPort(r, params) ==
    /\ r.container_name = params.ContainerName
    /\ r.started_at >= params.StartTime
    /\ r.started_at <= params.EndTime
    /\ params.DestIP # "" => r.dest_ip = params.DestIP

\* Store.QueryConnections: the WHERE clause of countQuery and of baseQuery.
whereClause(r, params) ==
    /\ r.container_name = params.ContainerName
    /\ r.started_at >= params.StartTime
    /\ r.started_at <= params.EndTime
    /\ params.DestIP # "" => r.dest_ip = params.DestIP
    /\ params.DestPort > 0 => r.dest_port = params.DestPort

\* Store.QueryConnections: SELECT COUNT(*).
countQuery(rows, params) == Cardinality({r \in rows : whereClause(r, params)})

\* Store.QueryConnections: the LIMIT argument.
effectiveLimit(limit) ==
    IF limit <= 0 THEN DefaultLimit
    ELSE IF limit > MaxLimit THEN MaxLimit
    ELSE limit

\* ORDER BY started_at DESC: the orders the database may produce (rows with
\* equal started_at come in any order).
orderByStartedAtDesc(S) ==
    {f \in Orderings(S) : \A i, j \in 1..Cardinality(S) :
                              i < j => f[i].started_at >= f[j].started_at}

\* LIMIT limit OFFSET offset, for offset >= 0.
page(f, limit, offset) ==
    LET last == IF offset + limit < Len(f) THEN offset + limit ELSE Len(f)
    IN SubSeq(f, offset + 1, last)

\* Store.QueryConnections: rows.Scan into a pb.HistoricalConnection.
scanRow(r) ==
    [Id |-> r.id,
     ContainerName |-> r.container_name,
     Protocol |-> r.protocol,
     SourceIp |-> r.source_ip, SourcePort |-> r.source_port,
     DestIp |-> r.dest_ip, DestPort |-> r.dest_port,
     Direction |-> r.direction,
     BytesSent |-> r.bytes_sent, BytesReceived |-> r.bytes_received,
     StartedAt |-> r.started_at,
     EndedAt |-> r.ended_at,
     DurationSeconds |-> r.duration_seconds]

\* The connections saved in the runs of the history query: flow 1 seen by
\* container a and by container b, and flow 2 seen by container a.
QueryFlows ==
    { convertToProto(
          processEvent("DESTROY",
                       [ID |-> x.id, BytesOrig |-> 100, PacketsOrig |-> 1,
                        BytesReply |-> 0, PacketsReply |-> 0], x.ts),
          x.name, x.ip, x.dir) :
        x \in {[id |-> 1, ts |-> 1, name |-> "a", ip |-> IpA, dir |-> "EGRESS"],
               [id |-> 1, ts |-> 2, name |-> "b", ip |-> IpB, dir |-> "INGRESS"],
               [id |-> 2, ts |-> 2, name |-> "a", ip |-> IpA, dir |-> "INGRESS"]} }

\* The params of the runs of the history query.
QueryParamsSet ==
    { [ContainerName |-> "a", StartTime |-> t, EndTime |-> 2, DestIP |-> ip,
       DestPort |-> port, Offset |-> off, Limit |-> lim] :
        t \in {1, 2}, ip \in {"", IpB}, port \in {0, 443},
        off \in {-1, 0, 1}, lim \in {-1, 0, 1, MaxLimit + 1} }

\* Store.QueryConnections up to and including the count statement.
QueryCount(params) ==
    /\ queryResult.phase \in {"none", "done"}
    /\ queryResult' = [NoResult EXCEPT !.phase = "counted", !.params = params,
                                       !.total = countQuery(storeRows, params)]
    /\ UNCHANGED <<configVars, apiVars, monitorVars, loopVars, stopVars, rdVars, poolClosed, hAggCalls,
                   aggRows, hLastCleanup, clock, kernelVars, events, cacheVars,
                   storePresent, connections, mu, evVars, snapVars, published,
                   persistTasks, storeVars, histVars>>

\* Store.QueryConnections from the select statement to the return. The
\* database rejects a negative OFFSET, and the call returns (nil, 0, err).
QuerySelect ==
    /\ queryResult.phase = "counted"
    /\ LET params == queryResult.params
           limit == effectiveLimit(params.Limit)
       IN IF params.Offset < 0
          THEN queryResult' = [NoResult EXCEPT !.phase = "done", !.params = params,
                                               !.limit = limit,
                                               !.err = "failed to query connections"]
          ELSE \E f \in orderByStartedAtDesc({r \in storeRows : whereClause(r, params)}) :
                 LET rows == page(f, limit, params.Offset)
                 IN queryResult' = [queryResult EXCEPT
                                       !.phase = "done", !.limit = limit,
                                       !.rows = [i \in 1..Len(rows) |-> scanRow(rows[i])]]
    /\ UNCHANGED <<configVars, apiVars, monitorVars, loopVars, stopVars, rdVars, poolClosed, hAggCalls,
                   aggRows, hLastCleanup, clock, kernelVars, events, cacheVars,
                   storePresent, connections, mu, evVars, snapVars, published,
                   persistTasks, storeVars, histVars>>

NextQuery ==
    \/ \E conn \in QueryFlows : StoreSave(conn)
    \/ \E params \in QueryParamsSet : QueryCount(params)
    \/ QuerySelect

SpecQuery == InitStore /\ [][NextQuery]_vars

\* --------------------------------------------------- the aggregate query
\* time.Minute, in ticks.
TicksPerMinute == 60 * TicksPerSecond

\* parseInterval
parseInterval(interval) ==
    CASE interval = "" -> [duration |-> TicksPerHour, err |-> "none"]
      [] interval = "1m" -> [duration |-> TicksPerMinute, err |-> "none"]
      [] interval = "5m" -> [duration |-> 5 * TicksPerMinute, err |-> "none"]
      [] interval = "15m" -> [duration |-> 15 * TicksPerMinute, err |-> "none"]
      [] interval = "30m" -> [duration |-> 30 * TicksPerMinute, err |-> "none"]
      [] interval = "1h" -> [duration |-> TicksPerHour, err |-> "none"]
      [] interval = "6h" -> [duration |-> 6 * TicksPerHour, err |-> "none"]
      [] interval = "12h" -> [duration |-> 12 * TicksPerHour, err |-> "none"]
      [] interval = "1d" -> [duration |-> 24 * TicksPerHour, err |-> "none"]
      [] OTHER -> [duration |-> 0, err |-> "unsupported interval"]

\* time.Time.Truncate(d) and date_trunc for a d that divides a day: the
\* instants are counted from a midnight UTC.
Truncate(t, d) == t - (t % d)

\* SUM(column) over a set of rows.
RECURSIVE SumColumn(_, _)
SumColumn(rows, column) ==
    IF rows = {} THEN 0
    ELSE LET r == CHOOSE r \in rows : TRUE
         IN r[column] + SumColumn(rows \ {r}, column)

\* Store.GetAggregates: the GROUP BY key of a row; a column that is not
\* grouped by is not selected, and the scan leaves its field at the zero value.
groupKey(r, params) ==
    [bucket |-> Truncate(r.started_at, TicksPerHour),
     dest_ip |-> IF params.GroupByDestIP THEN r.dest_ip ELSE "",
     dest_port |-> IF params.GroupByDestPort THEN r.dest_port ELSE 0]

\* Store.GetAggregates: the rows of the WHERE clause.
aggregateWhere(rows, params) ==
    {r \in rows : /\ r.container_name = params.ContainerName
                  /\ r.started_at >= params.StartTime
                  /\ r.started_at <= params.EndTime}

\* Store.GetAggregates: the pb.TrafficAggregate scanned from each group.
hourlyAggregates(rows, params) ==
    LET matching == aggregateWhere(rows, params)
        group(k) == {r \in matching : groupKey(r, params) = k}
    IN { [Timestamp |-> k.bucket, DestIp |-> k.dest_ip, DestPort |-> k.dest_port,
          BytesSent |-> SumColumn(group(k), "bytes_sent"),
          BytesReceived |-> SumColumn(group(k), "bytes_received"),
          ConnectionCount |-> Cardinality(group(k))] :
         k \in {groupKey(r, params) : r \in matching} }

\* ORDER BY bucket DESC: the orders the database may produce.
orderByBucketDesc(S) ==
    {f \in Orderings(S) : \A i, j \in 1..Cardinality(S) :
                              i < j => f[i].Timestamp >= f[j].Timestamp}

\* reAggregate: the buckets map after the range loop over aggregates.
RECURSIVE reAggregateBuckets(_, _, _)
reAggregateBuckets(aggregates, interval, buckets) ==
    IF aggregates = <<>> THEN buckets
    ELSE LET agg == Head(aggregates)
             bucketKey == Truncate(agg.Timestamp, interval)
         IN reAggregateBuckets(Tail(aggregates), interval,
              IF bucketKey \in DOMAIN buckets
              THEN [buckets EXCEPT ![bucketKey] =
                      [@ EXCEPT !.BytesSent = @ + agg.BytesSent,
                                !.BytesReceived = @ + agg.BytesReceived,
                                !.ConnectionCount = @ + agg.ConnectionCount]]
              ELSE MapPut(buckets, bucketKey, [agg EXCEPT !.Timestamp = bucketKey]))

\* reAggregate: the slices it can return (Go ranges over the buckets map in
\* an unspecified order).
reAggregate(aggregates, interval) ==
    IF Len(aggregates) = 0 THEN {aggregates}
    ELSE LET buckets == reAggregateBuckets(aggregates, interval, EmptyMap)
         IN Orderings({buckets[k] : k \in DOMAIN buckets})

\* Store.GetAggregates: the (aggregates, err) pairs it can return.
GetAggregates(rows, params) ==
    LET parsed == parseInterval(params.Interval)
    IN IF parsed.err # "none"
       THEN {[aggregates |-> <<>>, err |-> "invalid interval"]}
       ELSE {[aggregates |-> result, err |-> "none"] :
               result \in UNION {IF parsed.duration > TicksPerHour
                                 THEN reAggregate(hourly, parsed.duration)
                                 ELSE {hourly} :
                                   hourly \in orderByBucketDesc(hourlyAggregates(rows, params))}}

\* The connections saved in the runs of the aggregate query: flows of
\* container a to two destinations, started in hours 0, 1 and 6 of a day.
AggregateFlows ==
    { convertToProto(
          processEvent("DESTROY",
                       [ID |-> x.id, BytesOrig |-> 100, PacketsOrig |-> 1,
                        BytesReply |-> 200, PacketsReply |-> 1],
                       x.hour * TicksPerHour + 1),
          "a", IpA, IF x.id = 1 THEN "EGRESS" ELSE "INGRESS") :
        x \in {[id |-> 1, hour |-> 0], [id |-> 2, hour |-> 0],
               [id |-> 1, hour |-> 1], [id |-> 1, hour |-> 6]} }

\* The interval strings of the runs: the supported ones and one that is not.
Intervals == {"", "1m", "5m", "15m", "30m", "1h", "6h", "12h", "1d", "2h"}

\* The params of the runs of the aggregate query: one day of container a.
AggregateParamsSet ==
    { [ContainerName |-> "a", StartTime |-> 0, EndTime |-> TicksPerDay,
       Interval |-> i, GroupByDestIP |-> g, GroupByDestPort |-> g] :
        i \in Intervals, g \in BOOLEAN }

\* A call of Store.GetAggregates.
StoreGetAggregates(params) ==
    /\ \E r \in GetAggregates(storeRows, params) :
         aggregateResult' = [phase |-> "done", params |-> params,
                             aggregates |-> r.aggregates, err |-> r.err]
    /\ UNCHANGED <<configVars, rpc, mcp, monitorVars, loopVars, stopVars, rdVars, dbVars,
                   clock, kernelVars, events, cacheVars, storePresent, connections, mu,
                   evVars, snapVars, published, persistTasks, storeVars, histVars>>

NextAggregate ==
    \/ \E conn \in AggregateFlows : StoreSave(conn)
    \/ \E params \in AggregateParamsSet : StoreGetAggregates(params)

SpecAggregate == InitStore /\ [][NextAggregate]_vars

\* ---------------------------------------------------- the aggregate upsert
\* The aggregates saved in the runs of the upsert: hourly buckets of two
\* hours, with and without a destination address and port.
UpsertAggregates ==
    { [DestIp |-> ip, DestPort |-> port, Timestamp |-> h * TicksPerHour,
       BytesSent |-> sent, BytesReceived |-> 2 * sent, ConnectionCount |-> 1] :
        ip \in {"", IpB}, port \in {0, 443}, h \in {0, 1}, sent \in {100, 200} }

NextUpsert == \E agg \in UpsertAggregates : StoreSaveAggregate(agg)

SpecUpsert == InitStore /\ [][NextUpsert]_vars

\* ------------------------------------- the collector with or without emitter
\* The running collector with a store, with and without an events.Emitter.
InitEmit ==
    /\ InitData
    /\ storePresent = TRUE
    /\ emitterPresent \in BOOLEAN
    /\ hOpenFailed = FALSE
    /\ monitorPresent = newCollectorMonitor(hOpenFailed)
    /\ ctxDone = newCollectorCtxDone(hOpenFailed)
    /\ listenPc = "running"
    /\ refreshPc = "select"
    /\ evPc = "idle"
    /\ snapPc = "idle"
    /\ cleanupPc = "select"

SpecEmit == InitEmit /\ [][Next]_vars

\* ------------------------------------------- the collector from NewCollector on
\* The flows and the inventory of the lifecycle runs: one flow between the two
\* containers, both containers with their address.
LifeFlows == {1}

LifeInventories == {<<[Name |-> "a", IPAddress |-> IpA], [Name |-> "b", IPAddress |-> IpB]>>}

\* NewCollector has returned, Start has not been called: no loop is running
\* but the monitor's listener, which NewConntrackMonitor starts.
InitCollector ==
    /\ storePresent \in BOOLEAN
    /\ emitterPresent = TRUE
    /\ hOpenFailed \in BOOLEAN
    /\ monitorPresent = newCollectorMonitor(hOpenFailed)
    /\ ctxDone = newCollectorCtxDone(hOpenFailed)
    /\ listenPc = IF hOpenFailed THEN "none" ELSE "running"
    /\ refreshPc = "none"
    /\ evPc = "none"
    /\ snapPc = "none"
    /\ cleanupPc = "none"

InitLife == InitData /\ InitCollector

NextLife ==
    \/ Start
    \/ \E s \in Stoppers : StopCancel(s)
    \/ \E s \in Stoppers : CloseCancel(s)
    \/ \E s \in Stoppers : CloseEvents(s)
    \/ \E s \in Stoppers : CloseConn(s)
    \/ \E id \in LifeFlows : KernelNew(id)
    \/ \E id \in LifeFlows : KernelDestroy(id)
    \/ ListenExit
    \/ ListenSendClosed
    \/ \E containers \in LifeInventories : CacheRefresh(containers)
    \/ CacheRefreshFails
    \/ RefreshExit
    \/ EvRecv
    \/ EvLookupDst
    \/ EvUpdate
    \/ EvExit
    \/ SnapDump
    \/ SnapLock
    \/ SnapLookupSrc
    \/ SnapLookupDst
    \/ SnapUnlock
    \/ SnapExit
    \/ \E task \in persistTasks : PersistRun(task)
    \/ CleanupTick
    \/ CleanupExit

SpecLife == InitLife /\ [][NextLife]_vars

\* ------------------------------------------------- stopping, fair scheduling
\* Scheduling of the goroutines of a collector.  A select whose ctx.Done()
\* case stays ready takes it in the end (Go chooses among the ready cases at
\* random), and a goroutine that can take its next step takes it: a lock
\* that is free is acquired, a call returns.  The kernel, the tickers and
\* the callers of Start and Stop are under no obligation.
FairLoops ==
    /\ WF_vars(\E containers \in LifeInventories :
                   refreshPc = "initial" /\ CacheRefresh(containers))
    /\ WF_vars(RefreshExit)
    /\ WF_vars(EvLookupDst)
    /\ WF_vars(EvUpdate)
    /\ WF_vars(EvExit)
    /\ WF_vars(SnapLock)
    /\ WF_vars(SnapLookupSrc)
    /\ WF_vars(SnapLookupDst)
    /\ WF_vars(SnapUnlock)
    /\ WF_vars(SnapExit)
    /\ WF_vars(CleanupExit)

\* A collector with a monitor and a store, from NewCollector on.
InitStop == InitLife /\ storePresent = TRUE /\ hOpenFailed = FALSE

\* The steps of the lifecycle with one caller of Stop.
NextStop ==
    \/ Start
    \/ StopCancel("s1")
    \/ CloseCancel("s1")
    \/ CloseEvents("s1")
    \/ CloseConn("s1")
    \/ \E id \in LifeFlows : KernelNew(id)
    \/ \E id \in LifeFlows : KernelDestroy(id)
    \/ ListenExit
    \/ ListenSendClosed
    \/ \E containers \in LifeInventories : CacheRefresh(containers)
    \/ CacheRefreshFails
    \/ RefreshExit
    \/ EvRecv
    \/ EvLookupDst
    \/ EvUpdate
    \/ EvExit
    \/ SnapDump
    \/ SnapLock
    \/ SnapLookupSrc
    \/ SnapLookupDst
    \/ SnapUnlock
    \/ SnapExit
    \/ \E task \in persistTasks : PersistRun(task)
    \/ CleanupTick
    \/ CleanupExit

SpecStop == InitStop /\ [][NextStop]_vars /\ FairLoops

\* ------------------------------------------------- callers of GetConnections
\* A collector without a store, from NewCollector on, whose GetConnections is
\* called while the kernel reports events and the directory is refreshed.
InitRead == InitLife /\ storePresent = FALSE

NextRead ==
    \/ Start
    \/ \E id \in FlowIds : KernelNew(id)
    \/ \E id \in FlowIds : KernelDestroy(id)
    \/ \E containers \in Inventories : CacheRefresh(containers)
    \/ RefreshExit
    \/ EvRecv
    \/ EvLookupDst
    \/ EvUpdate
    \/ \E containerName \in ReadArgs : RdCall(containerName)
    \/ \E containers \in Inventories : RdRefresh(containers)
    \/ RdRefreshFails
    \/ RdDump
    \/ RdDumpFails
    \/ RdLock
    \/ RdLookupSrc
    \/ RdLookupDst
    \/ RdUnlock
    \/ RdRead

SpecRead == InitRead /\ [][NextRead]_vars

\* ------------------------------------- a reader beside the snapshot loop
\* A started collector without a store over a conntrack table that holds
\* flows already; the directory is still empty.
InitReplace ==
    /\ InitProgram
    /\ live = FlowIds
    /\ cnt = [id \in FlowIds |-> [o |-> 1, r |-> 0]]
    /\ storePresent = FALSE
    /\ emitterPresent = TRUE
    /\ hOpenFailed = FALSE
    /\ monitorPresent = newCollectorMonitor(hOpenFailed)
    /\ ctxDone = newCollectorCtxDone(hOpenFailed)
    /\ listenPc = "running"
    /\ refreshPc = "select"
    /\ evPc = "idle"
    /\ snapPc = "idle"
    /\ cleanupPc = "none"

\* The event loop, the snapshot loop and a caller of GetConnections.
NextReplace ==
    \/ \E id \in FlowIds : KernelDestroy(id)
    \/ \E containers \in LifeInventories : CacheRefresh(containers)
    \/ EvRecv
    \/ EvLookupDst
    \/ EvUpdate
    \/ SnapDump
    \/ SnapLock
    \/ SnapLookupSrc
    \/ SnapLookupDst
    \/ SnapUnlock
    \/ \E containerName \in ReadArgs : RdCall(containerName)
    \/ \E containers \in LifeInventories : RdRefresh(containers)
    \/ RdDump
    \/ RdLock
    \/ RdLookupSrc
    \/ RdLookupDst
    \/ RdUnlock
    \/ RdRead

SpecReplace == InitReplace /\ [][NextReplace]_vars

\* ------------------------------------------------- the directory by itself
\* ContainerCache.LookupName: the address, "" when the name is unknown.
LookupName(name) == MapGet(nameToIP, name)

\* The address of a third container.
IpC == "10.0.0.7"

\* What incusClient.ListContainers can return for three containers: each
\* with no address or with any address of the container network.
DirectoryInventories ==
    { <<[Name |-> "a", IPAddress |-> x], [Name |-> "b", IPAddress |-> y],
        [Name |-> "c", IPAddress |-> z]>> :
        x \in {"", IpA, IpB, IpC}, y \in {"", IpA, IpB, IpC}, z \in {"", IpA, IpB, IpC} }

\* A collector just started: the refresh loop is about to make its initial
\* refresh, with empty maps.
InitDirectory ==
    /\ InitData
    /\ storePresent \in BOOLEAN
    /\ emitterPresent = TRUE
    /\ hOpenFailed = FALSE
    /\ monitorPresent = newCollectorMonitor(hOpenFailed)
    /\ ctxDone = newCollectorCtxDone(hOpenFailed)
    /\ listenPc = "running"
    /\ refreshPc = "initial"
    /\ evPc = "idle"
    /\ snapPc = "idle"
    /\ cleanupPc = IF storePresent THEN "select" ELSE "none"

\* The refresh loop alone: refreshes that fail and refreshes that succeed.
NextDirectory ==
    \/ CacheRefreshFails
    \/ \E containers \in DirectoryInventories : CacheRefresh(containers)

SpecDirectory == InitDirectory /\ [][NextDirectory]_vars

\* --------------------------------------- the inventory provider is down
\* A started collector whose refresh loop is about to make its initial
\* refresh (empty maps), or is at its select with the generation of an
\* earlier refresh that found a container with an address.
InitInventoryDown ==
    /\ InitRegistry
    /\ live = {}
    /\ cnt = [id \in FlowIds |-> [o |-> 0, r |-> 0]]
    /\ storePresent = FALSE
    /\ emitterPresent = TRUE
    /\ hOpenFailed = FALSE
    /\ monitorPresent = newCollectorMonitor(hOpenFailed)
    /\ ctxDone = newCollectorCtxDone(hOpenFailed)
    /\ listenPc = "running"
    /\ evPc = "idle"
    /\ snapPc = "idle"
    /\ cleanupPc = "none"
    /\ \/ refreshPc = "initial" /\ ipToName = EmptyMap /\ nameToIP = EmptyMap
       \/ /\ refreshPc = "select"
          /\ \E containers \in Inventories :
               /\ buildIpToName(containers) # EmptyMap
               /\ ipToName = buildIpToName(containers)
               /\ nameToIP = buildNameToIP(containers)

\* Every ListContainers call fails while flows come and go.
NextInventoryDown ==
    \/ CacheRefreshFails
    \/ \E id \in FlowIds : KernelNew(id)
    \/ \E id \in FlowIds : KernelDestroy(id)
    \/ EvRecv
    \/ EvLookupDst
    \/ EvUpdate

SpecInventoryDown == InitInventoryDown /\ [][NextInventoryDown]_vars

\* ------------------------------------------ the flow source's dump is down
\* Every monitor.Snapshot() call of the snapshot loop fails while flows come
\* and go, the event loop runs and completed flows are saved.
NextSnapshotDown ==
    \/ SnapDumpFails
    \/ \E id \in FlowIds : KernelNew(id)
    \/ \E id \in FlowIds : KernelDestroy(id)
    \/ \E containers \in Inventories : CacheRefresh(containers)
    \/ EvRecv
    \/ EvLookupDst
    \/ EvUpdate
    \/ \E task \in persistTasks : PersistRun(task)

SpecSnapshotDown == InitStore /\ [][NextSnapshotDown]_vars

\* --------------------------------------------- completed flows and a store
\* A started collector with a store, built while the conntrack table held
\* the flows.
InitBurst ==
    /\ InitProgram
    /\ live = FlowIds
    /\ cnt = [id \in FlowIds |-> [o |-> 1, r |-> 0]]
    /\ storePresent = TRUE
    /\ emitterPresent = TRUE
    /\ hOpenFailed = FALSE
    /\ monitorPresent = newCollectorMonitor(hOpenFailed)
    /\ ctxDone = newCollectorCtxDone(hOpenFailed)
    /\ listenPc = "running"
    /\ refreshPc = "select"
    /\ evPc = "idle"
    /\ snapPc = "idle"
    /\ cleanupPc = "select"

\* Flows end and start, the event loop processes their events, and the
\* goroutines it starts save the completed flows whenever the store answers.
NextBurst ==
    \/ \E id \in FlowIds : KernelNew(id)
    \/ \E id \in FlowIds : KernelDestroy(id)
    \/ \E containers \in Inventories : CacheRefresh(containers)
    \/ EvRecv
    \/ EvLookupDst
    \/ EvUpdate
    \/ \E task \in persistTasks : PersistRun(task)

SpecBurst == InitBurst /\ [][NextBurst]_vars

\* ------------------------------------------------------ the traffic server
\* strings.HasPrefix on the addresses and prefixes of the runs.
HasPrefix(str, prefix) ==
    \/ prefix = ""
    \/ str = prefix
    \/ prefix = "10.0.0." /\ str \in {IpA, IpB}
    \/ prefix = "93." /\ str = IpExt

\* TrafficServer.GetConnections: the body of the filter loop (a connection
\* that reaches the append).
filterMatches(conn, req) ==
    /\ ~(req.Protocol # "PROTOCOL_UNSPECIFIED" /\ conn.Protocol # req.Protocol)
    /\ ~(req.DestIpPrefix # "" /\ ~HasPrefix(conn.DestIp, req.DestIpPrefix))
    /\ ~(req.DestPort # 0 /\ conn.DestPort # req.DestPort)

\* TrafficServer.GetConnections: the filter loop.
applyFilters(conns, req) ==
    LET keep(conn) == filterMatches(conn, req)
    IN SelectSeq(conns, keep)

\* TrafficServer.GetConnections: the limit in force.
serverLimit(limit) == IF limit = 0 THEN DefaultLimit ELSE limit

\* TrafficServer.GetConnections after the collector has returned: the
\* response, or a panic when filtered[:limit] is out of range.
getConnectionsResponse(conns, req) ==
    LET filtered == applyFilters(conns, req)
        limit == serverLimit(req.Limit)
    IN IF Len(filtered) > limit
       THEN IF limit < 0
            THEN [panic |-> TRUE, Connections |-> <<>>, TotalCount |-> 0]
            ELSE [panic |-> FALSE, Connections |-> SubSeq(filtered, 1, limit),
                  TotalCount |-> Len(filtered)]
       ELSE [panic |-> FALSE, Connections |-> filtered, TotalCount |-> Len(filtered)]

\* The length of the subsequence of conns with the given protocol.
CountProtocol(conns, protocol) ==
    Cardinality({i \in 1..Len(conns) : conns[i].Protocol = protocol})

\* The sum of a field over a sequence of connections.
RECURSIVE SumField(_, _)
SumField(conns, field) ==
    IF conns = <<>> THEN 0 ELSE Head(conns)[field] + SumField(Tail(conns), field)

\* Variant of destinationStats that counts the bytes sent only.
destinationStats_SentOnly(conns, ip) ==
    LET to == SelectSeq(conns, LAMBDA c : c.DestIp = ip)
    IN [DestIp |-> ip, ConnectionCount |-> Len(to), BytesTotal |-> SumField(to, "BytesSent")]

\* Collector.GetConnectionSummary: destCounts[ip] and destBytes[ip] after
\* the loop.
destinationStats(conns, ip) ==
    LET to == SelectSeq(conns, LAMBDA c : c.DestIp = ip)
    IN [DestIp |-> ip, ConnectionCount |-> Len(to),
        BytesTotal |-> SumField(to, "BytesSent") + SumField(to, "BytesReceived")]

\* Collector.GetConnectionSummary after GetConnections has returned: the
\* summaries it can build (TopDestinations follows the order of a map range).
connectionSummary(conns, containerName) ==
    { [ContainerName |-> containerName,
       ActiveConnections |-> Len(conns),
       TcpConnections |-> CountProtocol(conns, "PROTOCOL_TCP"),
       UdpConnections |-> CountProtocol(conns, "PROTOCOL_UDP"),
       TotalBytesSent |-> SumField(conns, "BytesSent"),
       TotalBytesReceived |-> SumField(conns, "BytesReceived"),
       TopDestinations |-> top] :
        top \in Orderings({destinationStats(conns, conns[i].DestIp) : i \in 1..Len(conns)}) }

\* Collector.GetStore() != nil
storeOf(present) == present

\* The requests of the runs.
GetConnectionsRequests ==
    { [ContainerName |-> "a", Protocol |-> proto, DestIpPrefix |-> prefix,
       DestPort |-> port, Limit |-> limit] :
        proto \in {"PROTOCOL_UNSPECIFIED", "PROTOCOL_TCP"}, prefix \in {"", "10.0.0."},
        port \in {0, 443}, limit \in {-1, 0, 1} }
    \cup {[ContainerName |-> "", Protocol |-> "PROTOCOL_UNSPECIFIED", DestIpPrefix |-> "",
           DestPort |-> 0, Limit |-> 0]}

SummaryRequests == {[ContainerName |-> n] : n \in {"", "a"}}

HistoryRequests ==
    { [ContainerName |-> n, StartTime |-> 0, EndTime |-> TicksPerDay, DestIp |-> "",
       DestPort |-> 0, Offset |-> off, Limit |-> 0] : n \in {"", "a"}, off \in {-1, 0} }

AggregatesRequests ==
    { [ContainerName |-> n, StartTime |-> 0, EndTime |-> TicksPerDay, Interval |-> i,
       GroupByDestIp |-> FALSE, GroupByDestPort |-> FALSE] : n \in {"", "a"}, i \in {"1h", "2h"} }

\* The status code of an error value a handler returns.  The handlers build
\* their errors with fmt.Errorf; such an error carries no status of its own
\* and is reported to the caller with the code Unknown.
statusCode(message) == IF message = "" THEN "OK" ELSE "Unknown"

\* The response of a call that returned an error.
errorResponse(message) == [err |-> message, code |-> statusCode(message)]

\* A handler is entered: the checks made before anything is called.
\* GetConnections and GetConnectionSummary go on to the collector.
RpcLive(method, req) ==
    /\ ~panicked
    /\ rpc.phase \in {"none", "done"}
    /\ rpc' = IF req.ContainerName = ""
              THEN [phase |-> "done", method |-> method, req |-> req,
                    resp |-> errorResponse("container_name is required")]
              ELSE [phase |-> "collector", method |-> method, req |-> req,
                    resp |-> errorResponse("")]
    /\ UNCHANGED <<configVars, aggregateResult, mcp, monitorVars, loopVars, stopVars, rdVars,
                   dbVars, clock, kernelVars, events, cacheVars, storePresent, connections,
                   mu, evVars, snapVars, published, persistTasks, storeVars, histVars>>

\* QueryTrafficHistory and GetTrafficAggregates go on to the store.
RpcStored(method, req) ==
    /\ ~panicked
    /\ rpc.phase \in {"none", "done"}
    /\ rpc' = IF req.ContainerName = ""
              THEN [phase |-> "done", method |-> method, req |-> req,
                    resp |-> errorResponse("container_name is required")]
              ELSE IF ~storeOf(storePresent)
              THEN [phase |-> "done", method |-> method, req |-> req,
                    resp |-> errorResponse("traffic persistence not available")]
              ELSE [phase |-> "store", method |-> method, req |-> req,
                    resp |-> errorResponse("")]
    /\ UNCHANGED <<configVars, aggregateResult, mcp, monitorVars, loopVars, stopVars, rdVars,
                   dbVars, clock, kernelVars, events, cacheVars, storePresent, connections,
                   mu, evVars, snapVars, published, persistTasks, storeVars, histVars>>

\* The handler calls s.collector.GetConnections(req.ContainerName).
RpcCollectorCall ==
    /\ rpc.phase = "collector"
    /\ rdPc = "idle"
    /\ RdCall(rpc.req.ContainerName)

\* TrafficServer.GetConnections: the collector has returned; filter, limit
\* and response.
RpcGetConnectionsReturn ==
    /\ ~panicked
    /\ rpc.phase = "collector" /\ rpc.method = "GetConnections"
    /\ rdPc = "done"
    /\ LET r == getConnectionsResponse(rdResult, rpc.req)
       IN IF r.panic
          THEN /\ panicked' = TRUE
               /\ rpc' = [rpc EXCEPT !.phase = "panicked"]
          ELSE /\ panicked' = panicked
               /\ rpc' = [rpc EXCEPT !.phase = "done",
                                     !.resp = [err |-> "", Connections |-> r.Connections,
                                               TotalCount |-> r.TotalCount]]
    /\ rdPc' = "idle"
    /\ UNCHANGED <<configVars, aggregateResult, mcp, monitorVars, loopVars, stopPc,
                   rdArg, rdDump, rdIdx, rdBuild, rdResult, hRdTrace,
                   dbVars, clock, kernelVars, events, cacheVars, storePresent, connections,
                   mu, evVars, snapVars, published, persistTasks, storeVars, histVars>>

\* TrafficServer.GetConnectionSummary: the collector's GetConnections has
\* returned; the fold and the response.
RpcGetConnectionSummaryReturn ==
    /\ ~panicked
    /\ rpc.phase = "collector" /\ rpc.method = "GetConnectionSummary"
    /\ rdPc = "done"
    /\ \E summary \in connectionSummary(rdResult, rpc.req.ContainerName) :
         rpc' = [rpc EXCEPT !.phase = "done", !.resp = [err |-> "", Summary |-> summary]]
    /\ rdPc' = "idle"
    /\ UNCHANGED <<configVars, aggregateResult, mcp, monitorVars, loopVars, stopVars,
                   rdArg, rdDump, rdIdx, rdBuild, rdResult, hRdTrace,
                   dbVars, clock, kernelVars, events, cacheVars, storePresent, connections,
                   mu, evVars, snapVars, published, persistTasks, storeVars, histVars>>

\* TrafficServer.QueryTrafficHistory: the QueryParams built from the request.
historyParams(req) ==
    [ContainerName |-> req.ContainerName, StartTime |-> req.StartTime,
     EndTime |-> req.EndTime, DestIP |-> req.DestIp, DestPort |-> req.DestPort,
     Offset |-> req.Offset, Limit |-> req.Limit]

\* TrafficServer.GetTrafficAggregates: the AggregateParams built from the
\* request.
aggregateParams(req) ==
    [ContainerName |-> req.ContainerName, StartTime |-> req.StartTime,
     EndTime |-> req.EndTime, Interval |-> req.Interval,
     GroupByDestIP |-> req.GroupByDestIp, GroupByDestPort |-> req.GroupByDestPort]

\* QueryTrafficHistory calls store.QueryConnections: the count statement.
RpcQueryCount ==
    /\ rpc.phase = "store" /\ rpc.method = "QueryTrafficHistory"
    /\ queryResult.phase = "none"
    /\ QueryCount(historyParams(rpc.req))

\* QueryTrafficHistory: store.QueryConnections, the select and its return.
RpcQuerySelect ==
    /\ rpc.phase = "store" /\ rpc.method = "QueryTrafficHistory"
    /\ QuerySelect

\* QueryTrafficHistory: the store has returned.
RpcQueryTrafficHistoryReturn ==
    /\ ~panicked
    /\ rpc.phase = "store" /\ rpc.method = "QueryTrafficHistory"
    /\ queryResult.phase = "done"
    /\ rpc' = [rpc EXCEPT
                 !.phase = "done",
                 !.resp = IF queryResult.err # "none"
                          THEN errorResponse("failed to query traffic history")
                          ELSE [err |-> "", Connections |-> queryResult.rows,
                                TotalCount |-> queryResult.total]]
    /\ queryResult' = NoResult
    /\ UNCHANGED <<configVars, aggregateResult, mcp, monitorVars, loopVars, stopVars, rdVars,
                   poolClosed, aggRows, hLastCleanup, hAggCalls,
                   clock, kernelVars, events, cacheVars, storePresent, connections,
                   mu, evVars, snapVars, published, persistTasks, storeVars, histVars>>

\* GetTrafficAggregates calls store.GetAggregates.
RpcGetAggregates ==
    /\ rpc.phase = "store" /\ rpc.method = "GetTrafficAggregates"
    /\ aggregateResult.phase = "none"
    /\ StoreGetAggregates(aggregateParams(rpc.req))

\* GetTrafficAggregates: the store has returned.
RpcGetTrafficAggregatesReturn ==
    /\ ~panicked
    /\ rpc.phase = "store" /\ rpc.method = "GetTrafficAggregates"
    /\ aggregateResult.phase = "done"
    /\ rpc' = [rpc EXCEPT
                 !.phase = "done",
                 !.resp = IF aggregateResult.err # "none"
                          THEN errorResponse("failed to get traffic aggregates")
                          ELSE [err |-> "", Aggregates |-> aggregateResult.aggregates]]
    /\ aggregateResult' = NoAggregates
    /\ UNCHANGED <<configVars, mcp, monitorVars, loopVars, stopVars, rdVars, dbVars,
                   clock, kernelVars, events, cacheVars, storePresent, connections,
                   mu, evVars, snapVars, published, persistTasks, storeVars, histVars>>

\* The conntrack tables the server runs start with: the kernel's table holds
\* whatever flows there are when the collector is built.
ServerTables ==
    { [live |-> {}, cnt |-> [id \in FlowIds |-> [o |-> 0, r |-> 0]]],
      [live |-> {1}, cnt |-> [id \in FlowIds |-> [o |-> IF id = 1 THEN 1 ELSE 0, r |-> 0]]],
      [live |-> {2}, cnt |-> [id \in FlowIds |-> [o |-> 0, r |-> 0]]],
      [live |-> {1, 2}, cnt |-> [id \in FlowIds |-> [o |-> 1, r |-> IF id = 2 THEN 1 ELSE 0]]] }

\* A server over a collector built with or without a store and with or
\* without a conntrack monitor.
InitServer ==
    /\ InitProgram
    /\ \E t \in ServerTables : live = t.live /\ cnt = t.cnt
    /\ InitCollector

NextServer ==
    \/ \E req \in GetConnectionsRequests : RpcLive("GetConnections", req)
    \/ \E req \in SummaryRequests : RpcLive("GetConnectionSummary", req)
    \/ \E req \in HistoryRequests : RpcStored("QueryTrafficHistory", req)
    \/ \E req \in AggregatesRequests : RpcStored("GetTrafficAggregates", req)
    \/ RpcCollectorCall
    \/ \E containers \in LifeInventories : RdRefresh(containers)
    \/ RdRefreshFails
    \/ RdDump
    \/ RdDumpFails
    \/ RdLock
    \/ RdLookupSrc
    \/ RdLookupDst
    \/ RdUnlock
    \/ RdRead
    \/ RpcGetConnectionsReturn
    \/ RpcGetConnectionSummaryReturn
    \/ RpcQueryCount
    \/ RpcQuerySelect
    \/ RpcQueryTrafficHistoryReturn
    \/ RpcGetAggregates
    \/ RpcGetTrafficAggregatesReturn

SpecServer == InitServer /\ [][NextServer]_vars

\* ------------------------------------------------- the fold of the summary
\* Flows of container a as the collector lists them: two tcp flows to one
\* destination, a udp flow and an icmp flow to another.
SummaryConnections ==
    { convertToProto(
          [ID |-> x.id, Type |-> "UPDATE", Protocol |-> x.proto,
           SrcIP |-> IpA, SrcPort |-> 40000, DstIP |-> x.dst, DstPort |-> x.port,
           State |-> "", BytesOrig |-> 100 * x.o, PacketsOrig |-> x.o,
           BytesReply |-> 100 * x.r, PacketsReply |-> x.r, Timestamp |-> 1],
          "a", IpA, "EGRESS") :
        x \in {[id |-> 1, proto |-> "tcp", dst |-> IpB, port |-> 443, o |-> 1, r |-> 0],
               [id |-> 2, proto |-> "tcp", dst |-> IpB, port |-> 80, o |-> 1, r |-> 1],
               [id |-> 3, proto |-> "udp", dst |-> IpExt, port |-> 53, o |-> 0, r |-> 1],
               [id |-> 4, proto |-> "icmp", dst |-> IpExt, port |-> 0, o |-> 1, r |-> 1]} }

\* The lists c.GetConnections can hand to the fold: the flows of a registry,
\* in the order of a map range.
SummaryLists == UNION {Orderings(S) : S \in SUBSET SummaryConnections}

\* Collector.GetConnectionSummary("a") from the point where c.GetConnections
\* has returned conns: the fold, and the handler's response.
SummaryFold(conns) ==
    /\ ~panicked
    /\ rpc.phase \in {"none", "done"}
    /\ rdPc = "idle"
    /\ rdResult' = conns
    /\ \E summary \in connectionSummary(conns, "a") :
         rpc' = [phase |-> "done", method |-> "GetConnectionSummary",
                 req |-> [ContainerName |-> "a"],
                 resp |-> [err |-> "", Summary |-> summary]]
    /\ UNCHANGED <<configVars, aggregateResult, mcp, monitorVars, loopVars, stopVars,
                   rdPc, rdArg, rdDump, rdIdx, rdBuild, hRdTrace,
                   dbVars, clock, kernelVars, events, cacheVars, storePresent, connections,
                   mu, evVars, snapVars, published, persistTasks, storeVars, histVars>>

NextSummary == \E conns \in SummaryLists : SummaryFold(conns)

SpecSummary == InitLife /\ [][NextSummary]_vars

\* ============================================================== MCP server
\* The server of cmd/mcp-server: one JSON-RPC request per line of stdin, one
\* response per request.

\* A nil interface value or nil pointer.
Nil == [t |-> "nil"]

\* A key that an object does not have.
Missing == [t |-> "missing"]

\* JSON values.
JsonNull == [t |-> "null"]
JsonNumber(n) == [t |-> "number", n |-> n]
JsonString(str) == [t |-> "string", s |-> str]
JsonArray == [t |-> "array"]
JsonObject == [t |-> "object"]

\* The params object of a tools/call request: the values of the keys that
\* json.Unmarshal takes for the fields Name and Arguments.
JsonParams(name, arguments) == [t |-> "params", name |-> name, arguments |-> arguments]

\* JSON-RPC error codes.
ParseError == -32700
MethodNotFound == -32601
InvalidParams == -32602
InternalError == -32603

\* Server.registerTools: the names of the registered tools.
registerTools ==
    {"create_container", "list_containers", "get_container", "delete_container",
     "start_container", "stop_container", "get_metrics", "get_system_info"}

\* What a tool handler returns: (result, nil) or ("", err).
ToolOutcomes == {[result |-> "ok", err |-> ""], [result |-> "", err |-> "request failed"]}

\* Server.createErrorResponse.
createErrorResponse_NoId(id, code, message) ==
    [JSONRPC |-> "2.0", ID |-> Nil, Result |-> Nil,
     Error |-> [Code |-> code, Message |-> message]]

createErrorResponse(id, code, message) ==
    [JSONRPC |-> "2.0", ID |-> id, Result |-> Nil,
     Error |-> [Code |-> code, Message |-> message]]

\* Server.handleInitialize.
handleInitialize(req) ==
    [JSONRPC |-> "2.0", ID |-> req.ID,
     Result |-> [protocolVersion |-> "2024-11-05",
                 serverInfo |-> [name |-> "containarium-mcp-server", version |-> "0.1.0"]],
     Error |-> Nil]

\* Server.handleToolsList.
handleToolsList(req, tools) ==
    [JSONRPC |-> "2.0", ID |-> req.ID, Result |-> [tools |-> tools], Error |-> Nil]

\* handleToolsCall's json.Marshal(req.Params) followed by json.Unmarshal into
\* struct{Name string; Arguments map[string]interface{}}: a nil Params is the
\* text null and leaves the struct as it is, anything but an object is an
\* error, a missing or null key leaves its field at the zero value, and a key
\* of another type than its field is an error.
unmarshalParams(params) ==
    IF params = Nil THEN [err |-> FALSE, Name |-> ""]
    ELSE IF params.t # "params" THEN [err |-> TRUE, Name |-> ""]
    ELSE IF params.name.t \notin {"missing", "null", "string"} THEN [err |-> TRUE, Name |-> ""]
    ELSE IF params.arguments.t \notin {"missing", "null", "object"}
    THEN [err |-> TRUE, Name |-> IF params.name.t = "string" THEN params.name.s ELSE ""]
    ELSE [err |-> FALSE, Name |-> IF params.name.t = "string" THEN params.name.s ELSE ""]

\* handleToolsCall's loop over s.tools: the tool of that name, or nil.
findTool_AnyTool(tools, name) ==
    IF tools = {} THEN Nil ELSE [t |-> "tool", Name |-> CHOOSE n \in tools : TRUE]

findTool(tools, name) ==
    IF name \in tools THEN [t |-> "tool", Name |-> name] ELSE Nil

\* Server.handleToolsCall; outcome is what the tool's handler returns when it
\* is called.  The result is the response and the handlers that ran.
handleToolsCall(req, tools, outcome) ==
    LET params == unmarshalParams(req.Params)
        tool == findTool(tools, params.Name)
    IN IF params.err
       THEN [resp |-> createErrorResponse(req.ID, InvalidParams, "Invalid params"),
             calls |-> <<>>]
       ELSE IF tool = Nil
       THEN [resp |-> createErrorResponse(req.ID, InvalidParams, "Tool not found"),
             calls |-> <<>>]
       ELSE IF outcome.err # ""
       THEN [resp |-> createErrorResponse(req.ID, InternalError, "Tool execution failed"),
             calls |-> <<tool.Name>>]
       ELSE [resp |-> [JSONRPC |-> "2.0", ID |-> req.ID,
                       Result |-> [content |-> <<[type |-> "text", text |-> outcome.result]>>],
                       Error |-> Nil],
             calls |-> <<tool.Name>>]

\* Server.handleRequest.
handleRequest(req, tools, outcome) ==
    CASE req.Method = "initialize" -> [resp |-> handleInitialize(req), calls |-> <<>>]
      [] req.Method = "tools/list" -> [resp |-> handleToolsList(req, tools), calls |-> <<>>]
      [] req.Method = "tools/call" -> handleToolsCall(req, tools, outcome)
      [] OTHER -> [resp |-> createErrorResponse(req.ID, MethodNotFound, "Method not found"),
                   calls |-> <<>>]

\* The requests a line of stdin can decode to.
McpIds == {Nil, JsonNumber(1), JsonNumber(2), JsonString("1")}

McpMethods == {"initialize", "tools/list", "tools/call", "resources/list", ""}

McpNames ==
    {Missing, JsonNull, JsonNumber(123), JsonString(""), JsonString("list_containers"),
     JsonString("get_metrics"), JsonString("nonexistent_tool")}

McpParams ==
    {Nil, JsonArray}
      \cup {JsonParams(name, arguments) :
              name \in McpNames, arguments \in {Missing, JsonObject, JsonNumber(1)}}

McpRequests ==
    {[JSONRPC |-> "2.0", ID |-> id, Method |-> method, Params |-> params] :
       id \in McpIds, method \in McpMethods, params \in McpParams}

\* Everything but the MCP server is left alone.
McpOnly ==
    UNCHANGED <<configVars, aggregateResult, rpc, monitorVars, loopVars, stopVars, rdVars,
                dbVars, clock, kernelVars, events, cacheVars, storePresent, connections,
                mu, evVars, snapVars, published, persistTasks, storeVars, histVars>>

\* Server.Start: a line that does not decode to a request.
McpParseError ==
    /\ mcp' = [phase |-> "done", parsed |-> FALSE, req |-> Nil,
               resp |-> createErrorResponse(Nil, ParseError, "Parse error"),
               calls |-> <<>>]
    /\ McpOnly

\* Server.Start: a line that decodes to req; handleRequest and the response.
McpRequest(req, outcome) ==
    /\ LET h == handleRequest(req, registerTools, outcome)
       IN mcp' = [phase |-> "done", parsed |-> TRUE, req |-> req,
                  resp |-> h.resp, calls |-> h.calls]
    /\ McpOnly

NextMcp ==
    \/ McpParseError
    \/ \E req \in McpRequests, outcome \in ToolOutcomes : McpRequest(req, outcome)

SpecMcp == InitLife /\ [][NextMcp]_vars




\* ================================================================== claims
Quiescent == events = <<>> /\ evPc = "idle" /\ persistTasks = {}

RowsFor(id) == {r \in storeRows : r.conntrack_id = id}

BothInDirectory(event) ==
    event.SrcIP \in DOMAIN ipToName /\ event.DstIP \in DOMAIN ipToName

NeitherInDirectory(event) ==
    event.SrcIP \notin DOMAIN ipToName /\ event.DstIP \notin DOMAIN ipToName

SourceFirst(conn, event) ==
    /\ conn.Direction = "EGRESS"
    /\ conn.ContainerIp = event.SrcIP
    /\ conn.ContainerName = ipToName[event.SrcIP]

CountersMapped(conn, event) ==
    CASE conn.Direction = "EGRESS" ->
           /\ conn.BytesSent = event.BytesOrig
           /\ conn.BytesReceived = event.BytesReply
           /\ conn.PacketsSent = event.PacketsOrig
           /\ conn.PacketsReceived = event.PacketsReply
      [] conn.Direction = "INGRESS" ->
           /\ conn.BytesSent = event.BytesReply
           /\ conn.BytesReceived = event.BytesOrig
           /\ conn.PacketsSent = event.PacketsReply
           /\ conn.PacketsReceived = event.PacketsOrig
      [] OTHER -> FALSE

TotalBytes(conn) == conn.BytesSent + conn.BytesReceived

\* C1: with the store configured, once the event loop is idle, the channel is
\* empty and every persist task has run, a flow id whose last event was an
\* (attributed) DESTROY has no registry entry and exactly one row in the store.
C1_DestroyedFlowGoneAndPersistedOnce ==
    \A id \in FlowIds :
        (storePresent /\ Quiescent /\ hLastObserved[id] = "DESTROY" /\ hLastAttributed[id])
            => (id \notin DOMAIN connections /\ Cardinality(RowsFor(id)) = 1)

\* C2 as stated: whenever the event loop is idle, the registry has an entry for
\* an id exactly if the last event received for the id was not a DESTROY.
C2_RegistryIffLastEventNotDestroy ==
    evPc = "idle" =>
        \A id \in FlowIds :
            (id \in DOMAIN connections) <=> (hLastObserved[id] \in {"NEW", "UPDATE"})

\* C2 amended: the registry has an entry for an id exactly if the last registry
\* write concerning the id was an attributed NEW or UPDATE event, or a snapshot
\* reconciliation whose dump held the id with an endpoint in the directory.
C2_RegistryIffLastWriteKeeps ==
    \A id \in FlowIds :
        (id \in DOMAIN connections) <=> (hLastWrite[id] \in {"NEW", "UPDATE", "SNAP_IN"})

\* C2 witness: a DESTROY removed an id that an event had put in the registry,
\* while the other flow's last event was not attributed.
C2_Witness ==
    \E id \in FlowIds :
        /\ hLastWrite[id] = "DESTROY"
        /\ id \notin DOMAIN connections
        /\ \E r \in storeRows : r.conntrack_id = id /\ hRowFacts[r.id].wasActive

\* C3: the store never holds two rows with the same flow id (conntrack_id),
\* whatever SaveConnection calls were made.
C3_OneRowPerFlowId ==
    \A r1, r2 \in storeRows : r1.conntrack_id = r2.conntrack_id => r1 = r2

\* C4: a reconciliation whose dump lacks an id that NEW/UPDATE events put in
\* the registry removes the id, and that step writes nothing to the store and
\* starts no persist task.
C4_SnapshotEvictsWithoutPersisting ==
    [][\A id \in FlowIds :
         ( /\ snapPc = "src" /\ snapPc' = "idle"
           /\ id \in DOMAIN connections
           /\ hLastWrite[id] \in {"NEW", "UPDATE"}
           /\ \A i \in 1..Len(snapDump) : snapDump[i].ID # id )
         => ( /\ id \notin DOMAIN connections'
              /\ storeRows' = storeRows
              /\ persistTasks' = persistTasks )]_vars

\* C4 witness: the last reconciliation evicted an id that events had put in
\* the registry, and the store has no row for it.
C4_Witness ==
    \E id \in hEvicted :
        /\ snapPc = "idle"
        /\ hLastWrite[id] = "SNAP_OUT"
        /\ id \notin DOMAIN connections
        /\ storePresent
        /\ RowsFor(id) = {}

\* C5: when both addresses of a raw flow are in the directory as its attribution
\* starts, the event path and the snapshot path both attribute it at the first
\* lookup: EGRESS, container_ip the source address, container_name its name.
C5_SourceFirstTieBreak ==
    [][ /\ (evPc = "idle" /\ evPc' # "idle" /\ BothInDirectory(Head(events)))
            => (evPc' = "update" /\ SourceFirst(evConn', Head(events)))
        /\ ( /\ snapPc = "src" /\ snapIdx <= Len(snapDump)
             /\ <<snapPc, snapIdx>>' # <<snapPc, snapIdx>>
             /\ BothInDirectory(snapDump[snapIdx]) )
            => ( /\ snapPc' = "src" /\ snapIdx' = snapIdx + 1
                 /\ snapDump[snapIdx].ID \in DOMAIN snapBuild'
                 /\ SourceFirst(snapBuild'[snapDump[snapIdx].ID], snapDump[snapIdx]) )
      ]_vars

\* C5 witness: the event loop holds an intra-container event attributed as
\* EGRESS of the source container while both addresses are in the directory.
C5_Witness ==
    /\ evPc = "update"
    /\ BothInDirectory(evCur)
    /\ SourceFirst(evConn, evCur)
    /\ evConn.ContainerName = "a"

\* C6: a lookup step of the event loop taken while neither address of the
\* event is in the directory changes neither the registry nor the published
\* events nor the persist tasks, and after the second lookup the event is dropped.
C6_UnattributedEventHasNoEffect ==
    [][ /\ (evPc = "idle" /\ evPc' # "idle" /\ NeitherInDirectory(Head(events)))
            => (evPc' = "lookupDst" /\ UNCHANGED <<connections, published, persistTasks>>)
        /\ (evPc = "lookupDst" /\ evPc' # "lookupDst" /\ NeitherInDirectory(evCur))
            => ( /\ evPc' = "idle" /\ evCur' = NoEvent
                 /\ UNCHANGED <<connections, published, persistTasks>> )
      ]_vars

\* C6 witness: an event was received and dropped with an empty directory, and
\* nothing was registered, published or queued for the store.
C6_Witness ==
    /\ evPc = "idle"
    /\ ipToName = EmptyMap
    /\ \E id \in FlowIds : hLastObserved[id] = "DESTROY" /\ ~hLastAttributed[id]
    /\ connections = EmptyMap
    /\ published = <<>>
    /\ persistTasks = {}

\* C7: every attributed flow built by the event loop or by the snapshot rebuild
\* has sent = orig and received = reply when EGRESS, sent = reply and
\* received = orig when INGRESS, for bytes and for packets.
C7_DirectionalCounters ==
    /\ evPc = "update" => CountersMapped(evConn, evCur)
    /\ snapPc \in {"src", "dst"} =>
         \A i \in 1..Len(snapDump) :
             snapDump[i].ID \in DOMAIN snapBuild
                 => CountersMapped(snapBuild[snapDump[i].ID], snapDump[i])

\* C7 witness: an INGRESS flow with different orig and reply counters.
C7_Witness ==
    /\ evPc = "update"
    /\ evConn.Direction = "INGRESS"
    /\ evCur.BytesOrig # evCur.BytesReply
    /\ evConn.BytesSent = evCur.BytesReply

\* C8: the row persisted for a flow that was in the registry when its DESTROY
\* was applied has started_at = the flow's first attribution time, ended_at =
\* the DESTROY's observed_at, duration_seconds = their difference in seconds,
\* and the DESTROY's counters mapped by direction.
C8_PersistedRowSpansFlowLifetime ==
    \A r \in storeRows :
        LET h == hRowFacts[r.id]
        IN h.wasActive =>
             /\ r.started_at = h.firstAttr
             /\ r.ended_at = h.event.Timestamp
             /\ r.duration_seconds = (h.event.Timestamp - h.firstAttr) \div TicksPerSecond
             /\ r.bytes_sent = IF r.direction = "EGRESS" THEN h.event.BytesOrig
                               ELSE h.event.BytesReply
             /\ r.bytes_received = IF r.direction = "EGRESS" THEN h.event.BytesReply
                                   ELSE h.event.BytesOrig

\* C9: first_seen of a registry entry is the observed_at of the attribution
\* that put the id in the registry and does not change while the id stays in
\* it; last_seen is the observed_at of the event applied last.
C9_FirstSeenStableLastSeenFresh ==
    [][ /\ \A id \in FlowIds :
             (id \in DOMAIN connections /\ id \in DOMAIN connections')
                 => connections'[id].FirstSeen = connections[id].FirstSeen
        /\ (evPc = "update" /\ evPc' = "idle" /\ evCur.Type # "DESTROY")
             => ( /\ connections'[evCur.ID].LastSeen = evCur.Timestamp
                  /\ evCur.ID \notin DOMAIN connections
                       => connections'[evCur.ID].FirstSeen = evCur.Timestamp )
      ]_vars

\* C10: while an id stays in the registry, bytes_sent + bytes_received of its
\* entry never decreases from one registry state to the next (the kernel's
\* counters per id never decrease).
C10_TotalBytesNondecreasing ==
    [][\A id \in FlowIds :
          (id \in DOMAIN connections /\ id \in DOMAIN connections')
              => TotalBytes(connections'[id]) >= TotalBytes(connections[id])]_vars

\* ---------------------------------------------------------------- lifecycle
StopCalled == \E s \in Stoppers : stopPc[s] # "idle"

Started == refreshPc # "none"

LoopsExited ==
    /\ refreshPc \in {"none", "exited"}
    /\ evPc \in {"none", "exited"}
    /\ snapPc \in {"none", "exited"}
    /\ cleanupPc \in {"none", "exited"}

\* C11: when the flow source failed to open and a store is configured, then
\* from Start until Stop is called the cleanup loop has not returned: it is at
\* its select, where every tick of the cleanup ticker runs store.Cleanup.
C11_DegradedCleanupLoopKeepsRunning ==
    (hOpenFailed /\ storePresent /\ Started /\ ~StopCalled) => cleanupPc = "select"

\* C13: no call of Stop panics, whether it is the first or the second and
\* whether the two overlap, and every call that returned leaves the context
\* cancelled and the monitor (if there is one) cancelled and closed.
C13_StopIsIdempotent ==
    \A s \in Stoppers :
        /\ stopPc[s] # "panicked"
        /\ stopPc[s] = "done" =>
              /\ ctxDone
              /\ monitorPresent => (mDone /\ eventsClosed /\ connClosed)

\* C14: when a call of Stop on a started collector has returned, the refresh
\* loop, the event loop, the snapshot loop and the cleanup loop have exited, no
\* persist task is pending, the monitor is closed and the store's pool is closed.
C14_StopReturnsAfterEverythingStopped ==
    \A s \in Stoppers :
        (Started /\ stopPc[s] = "done") =>
            /\ LoopsExited
            /\ persistTasks = {}
            /\ monitorPresent => (eventsClosed /\ connClosed)
            /\ storePresent => poolClosed

\* -------------------------------------------------------------- live reads
\* C12: when the flow source failed to open, the registry is empty in every
\* state and every completed GetConnections call returned an empty list;
\* IsAvailable() is false exactly then and Error() is non-empty exactly then.
C12_DegradedReadsAreEmpty ==
    /\ hOpenFailed => (connections = EmptyMap /\ ~panicked)
    /\ (hOpenFailed /\ rdPc = "done") => rdResult = <<>>
    /\ IsAvailable <=> ~hOpenFailed
    /\ (Error # "") <=> hOpenFailed

\* C12 witness: in degraded mode, after Start, a GetConnections call found the
\* directory empty, refreshed it (it now has both containers) and returned.
C12_Witness ==
    /\ hOpenFailed
    /\ Started
    /\ rdPc = "done"
    /\ hRdTrace = <<"empty", "refresh", "read">>
    /\ Size = 2
    /\ rdResult = <<>>
    /\ ~IsAvailable

\* What a completed GetConnections call has done when every step succeeded.
RdStepsExpected ==
    (IF hRdTrace # <<>> /\ hRdTrace[1] = "empty" THEN <<"empty", "refresh">> ELSE <<>>)
        \o (IF monitorPresent THEN <<"snapshot", "replace_all">> ELSE <<>>)
        \o <<"read">>

\* What a completed GetConnections call has done when monitor.Snapshot failed.
RdStepsSnapshotFailed ==
    (IF hRdTrace # <<>> /\ hRdTrace[1] = "empty" THEN <<"empty", "refresh">> ELSE <<>>)
        \o <<"snapshot_failed", "read">>

\* The list returned by the read step holds exactly the registry's flows of the
\* requested container (all flows for ""), as the registry is at the read.
RdResultFiltered ==
    (rdPc = "read" /\ rdPc' = "done") =>
        /\ \A i \in 1..Len(rdResult') :
              /\ rdArg = "" \/ rdResult'[i].ContainerName = rdArg
              /\ \E id \in DOMAIN connections : connections[id] = rdResult'[i]
        /\ \A id \in DOMAIN connections :
              (rdArg = "" \/ connections[id].ContainerName = rdArg)
                  => \E i \in 1..Len(rdResult') : rdResult'[i] = connections[id]

\* C18 as stated: a completed GetConnections call did, in this order, a
\* refresh exactly if it found the directory empty, then with a monitor a
\* snapshot and its replace_all, then the read; and the list it returned is the
\* registry of the read step (which follows the replace_all) filtered by the
\* requested container.
C18_ReadSequence ==
    /\ [](rdPc = "done" => hRdTrace = RdStepsExpected)
    /\ [][RdResultFiltered]_vars

\* C18 amended: as C18, but the replace_all is done only if monitor.Snapshot
\* succeeded; when it failed the read follows the failed snapshot directly.
C18_ReadSequenceUnlessSnapshotFails ==
    /\ [](rdPc = "done" => hRdTrace \in {RdStepsExpected, RdStepsSnapshotFailed})
    /\ [](rdPc = "done" /\ ~monitorPresent => hRdTrace = RdStepsExpected)
    /\ [][RdResultFiltered]_vars

\* C18 witness: a call for container a found the directory empty, refreshed it,
\* took a snapshot, replaced the registry and returned one flow, while the
\* registry also holds a flow of container b.
C18_Witness ==
    /\ rdPc = "done"
    /\ rdArg = "a"
    /\ hRdTrace = <<"empty", "refresh", "snapshot", "replace_all", "read">>
    /\ Len(rdResult) = 1
    /\ rdResult[1].ContainerName = "a"
    /\ \E id \in DOMAIN connections : connections[id].ContainerName = "b"

\* ----------------------------------------------------------- event channel
\* A step in which the listener handles a kernel event.
KernelEventStep == kernelVars' # kernelVars

\* C15: the channel never holds more than its capacity; a kernel event that
\* arrives while the channel is full is discarded (the channel is unchanged)
\* and the listener stays ready for the next one; an event arriving while
\* there is room is buffered.
C15_ProducerNeverBlocks ==
    [][ /\ Len(events') <= EventChanCap
        /\ (KernelEventStep /\ Len(events) = EventChanCap)
              => (events' = events /\ listenPc' = "running")
        /\ (KernelEventStep /\ Len(events) < EventChanCap)
              => (Len(events') = Len(events) + 1 /\ listenPc' = "running")
      ]_vars

\* C15 witness: more flows have entered the table than the channel holds,
\* nothing has been received yet and the channel is full: an event was dropped.
C15_Witness ==
    /\ Len(events) = EventChanCap
    /\ Cardinality(live) > Len(events)
    /\ \A id \in FlowIds : hLastObserved[id] = "none"
    /\ evPc = "idle"
    /\ listenPc = "running"

\* C16: every step that drops an event because the channel is full increments
\* the dropped-events counter by exactly one.
C16_DroppedCounterCountsDrops ==
    [][(KernelEventStep /\ Len(events) = EventChanCap)
          => droppedEvents' = droppedEvents + 1]_vars

\* ------------------------------------------------------------------ fan-out
\* The step in which the event loop applies the attributed event evCur.
ApplyStep == evPc = "update" /\ evPc' = "idle"

\* C17: with an emitter, the step that applies an attributed NEW, UPDATE or
\* DESTROY event publishes exactly one traffic event, of the event's type and
\* carrying the flow attributed for that event; without an emitter it publishes
\* nothing; in both cases the step puts the flow in the registry (NEW, UPDATE)
\* or removes it and starts its persist task (DESTROY); no other step publishes.
C17_OneLifecycleEventPerAttributedEvent ==
    [][ /\ ApplyStep =>
              /\ emitterPresent =>
                    /\ Len(published') = Len(published) + 1
                    /\ SubSeq(published', 1, Len(published)) = published
                    /\ published'[Len(published')].Type = "TRAFFIC_EVENT_TYPE_" \o evCur.Type
                    /\ published'[Len(published')].Connection = evConn
                    /\ evConn.Id = evCur.ID
              /\ ~emitterPresent => published' = published
              /\ evCur.Type \in {"NEW", "UPDATE"} =>
                    /\ evCur.ID \in DOMAIN connections'
                    /\ connections'[evCur.ID] = evConn
                    /\ persistTasks' = persistTasks
              /\ evCur.Type = "DESTROY" =>
                    /\ evCur.ID \notin DOMAIN connections'
                    /\ \E task \in persistTasks' : task.conn = evConn
        /\ ~ApplyStep => published' = published
      ]_vars

\* C17 witness: with an emitter, a NEW and then a DESTROY of one flow were
\* published in that order and the DESTROY's row is in the store.
C17_Witness ==
    /\ emitterPresent
    /\ Len(published) = 2
    /\ published[1].Type = "TRAFFIC_EVENT_TYPE_NEW"
    /\ published[2].Type = "TRAFFIC_EVENT_TYPE_DESTROY"
    /\ published[1].Connection.Id = published[2].Connection.Id
    /\ \E r \in storeRows : r.conntrack_id = published[2].Connection.Id

\* ---------------------------------------------------------------- retention
\* A step that is a direct call of Store.Cleanup.
CleanupStep == hLastCleanup' # hLastCleanup

\* C20: a call Cleanup(d) at time now removes from traffic_connections exactly
\* the rows with created_at < now - d days: every row with created_at at or
\* after that cutoff is still there, no row is added or altered, and
\* traffic_aggregates is unchanged.
C20_CleanupDeletesExactlyOlderRows ==
    [][CleanupStep =>
          LET cutoff == clock - hLastCleanup'.days * TicksPerDay
          IN /\ storeRows' \subseteq storeRows
             /\ \A r \in storeRows : (r \in storeRows') <=> (r.created_at >= cutoff)
             /\ aggRows' = aggRows]_vars

\* C20 witness: the last Cleanup call found a row inserted before its cutoff
\* and a row inserted exactly at its cutoff; the first is gone, the second is
\* still there, and traffic_aggregates holds a row.
C20_Witness ==
    /\ hLastCleanup.calls = 1
    /\ hLastCleanup.days = 1
    /\ hLastCleanup.at = clock
    /\ \E r1, r2 \in hLastCleanup.before :
          /\ r1.created_at < clock - TicksPerDay
          /\ r2.created_at = clock - TicksPerDay
          /\ r1 \notin storeRows
          /\ r2 \in storeRows
    /\ aggRows # <<>>

\* ------------------------------------------------------------------ C19
\* The count statement of a history query has run.
QueryCounted == queryResult.phase # "counted" /\ queryResult'.phase = "counted"

\* A history query returns.
QueryReturned == queryResult.phase = "counted" /\ queryResult'.phase = "done"

\* The page size the claim gives for limit L.
ClaimedLimit(L) == IF L <= 0 THEN 100 ELSE IF L < 1000 THEN L ELSE 1000

\* The filters of a history query, on a stored row.
RowMatchesFilters(r, p) ==
    /\ r.container_name = p.ContainerName
    /\ p.StartTime <= r.started_at /\ r.started_at <= p.EndTime
    /\ (p.DestIP = "" \/ r.dest_ip = p.DestIP)
    /\ (p.DestPort <= 0 \/ r.dest_port = p.DestPort)

\* The filters of a history query, on a returned connection.
ConnMatchesFilters(c, p) ==
    /\ c.ContainerName = p.ContainerName
    /\ p.StartTime <= c.StartedAt /\ c.StartedAt <= p.EndTime
    /\ (p.DestIP = "" \/ c.DestIp = p.DestIP)
    /\ (p.DestPort <= 0 \/ c.DestPort = p.DestPort)

\* C19: a history query with limit L returns at most min(L, 1000) rows, 100
\* when L is 0 or negative, ordered by started_at descending, each of them
\* matching the container, the time range and the dest_ip and dest_port
\* filters that are set; total_count is the number of stored rows matching
\* the filters when the count is taken, whatever limit and offset are.
C19_QueryHistoryPageAndTotal ==
    [][/\ QueryCounted =>
            queryResult'.total =
                Cardinality({r \in storeRows : RowMatchesFilters(r, queryResult'.params)})
       /\ QueryReturned /\ queryResult'.err = "none" =>
            LET p == queryResult.params
                rows == queryResult'.rows
            IN /\ Len(rows) <= ClaimedLimit(p.Limit)
               /\ \A i, j \in 1..Len(rows) : i < j => rows[i].StartedAt >= rows[j].StartedAt
               /\ \A i \in 1..Len(rows) : ConnMatchesFilters(rows[i], p)
               /\ \A i \in 1..Len(rows) : \E r \in storeRows : rows[i].Id = r.id
               /\ queryResult'.total = queryResult.total]_vars

\* A query with limit 1 and a dest_port filter has returned one row of the
\* two that match.
C19_Witness ==
    /\ queryResult.phase = "done"
    /\ queryResult.err = "none"
    /\ queryResult.params.Limit = 1
    /\ queryResult.params.DestPort > 0
    /\ Len(queryResult.rows) = 1
    /\ queryResult.total = 2
    /\ \E r \in storeRows : ~RowMatchesFilters(r, queryResult.params)

\* ------------------------------------------------------------------ C21
\* C21: an aggregate query whose interval is smaller than the hourly bucket
\* (1m, 5m, 15m, 30m) returns an error.
C21_SubHourIntervalIsAnError ==
    (/\ aggregateResult.phase = "done"
     /\ aggregateResult.params.Interval \in {"1m", "5m", "15m", "30m"})
    => aggregateResult.err # "none"

\* ------------------------------------------------------------------ C22
\* C22: for every supported interval, the buckets an aggregate query returns
\* are ordered by bucket start, descending.
C22_BucketsOrderedDescending ==
    (aggregateResult.phase = "done" /\ aggregateResult.err = "none")
    => \A i, j \in 1..Len(aggregateResult.aggregates) :
          i < j => aggregateResult.aggregates[i].Timestamp
                     >= aggregateResult.aggregates[j].Timestamp

\* ------------------------------------------------------------------ C23
\* The destination an output bucket stands for: the grouped columns of a row.
DestOf(r, p) ==
    [ip |-> IF p.GroupByDestIP THEN r.dest_ip ELSE "",
     port |-> IF p.GroupByDestPort THEN r.dest_port ELSE 0]

\* C23: re-bucketing to an interval larger than one hour keeps the key
\* (dest_ip, dest_port, interval_start): each output bucket holds the sums
\* over exactly the stored flows of its destination whose hour truncates to
\* its interval_start.
C23_RebucketingKeepsTheKey ==
    (/\ aggregateResult.phase = "done"
     /\ aggregateResult.err = "none"
     /\ aggregateResult.params.Interval \in {"6h", "12h", "1d"})
    => LET p == aggregateResult.params
           d == CASE p.Interval = "6h" -> 6 * TicksPerHour
                  [] p.Interval = "12h" -> 12 * TicksPerHour
                  [] OTHER -> 24 * TicksPerHour
           matching == {r \in storeRows : /\ r.container_name = p.ContainerName
                                          /\ p.StartTime <= r.started_at
                                          /\ r.started_at <= p.EndTime}
       IN \A i \in 1..Len(aggregateResult.aggregates) :
            LET b == aggregateResult.aggregates[i]
                members == {r \in matching :
                              /\ DestOf(r, p) = [ip |-> b.DestIp, port |-> b.DestPort]
                              /\ r.started_at - (r.started_at % d) = b.Timestamp}
            IN /\ b.BytesSent = SumColumn(members, "bytes_sent")
               /\ b.BytesReceived = SumColumn(members, "bytes_received")
               /\ b.ConnectionCount = Cardinality(members)

\* ------------------------------------------------------------------ C24
\* The key (container, dest_ip, dest_port, interval_start) of a call.
CallKey(c) == <<c.containerName, c.agg.DestIp, c.agg.DestPort, c.agg.Timestamp>>

\* The key of a row of traffic_aggregates; an absent dest_ip is "", an absent
\* dest_port is 0.
RowKey(r) == <<r.container_name, r.dest_ip, r.dest_port, r.interval_start>>

\* The sum of a counter over the calls of a sequence that have key k.
RECURSIVE SumCalls(_, _, _)
SumCalls(calls, k, field) ==
    IF calls = <<>> THEN 0
    ELSE (IF CallKey(Head(calls)) = k THEN Head(calls).agg[field] ELSE 0)
         + SumCalls(Tail(calls), k, field)

\* C24: after the save_aggregate calls made so far, the store holds exactly
\* one row for each key saved, keys with an absent dest_ip or dest_port
\* included, and its bytes_sent, bytes_received and connection_count are the
\* sums over the calls with that key.
C24_SaveAggregateIsUpsertAdd ==
    \A n \in 1..Len(hAggCalls) :
        LET k == CallKey(hAggCalls[n])
            held == {i \in 1..Len(aggRows) : RowKey(aggRows[i]) = k}
        IN /\ Cardinality(held) = 1
           /\ \A i \in held :
                /\ aggRows[i].bytes_sent = SumCalls(hAggCalls, k, "BytesSent")
                /\ aggRows[i].bytes_received = SumCalls(hAggCalls, k, "BytesReceived")
                /\ aggRows[i].connection_count = SumCalls(hAggCalls, k, "ConnectionCount")

\* ------------------------------------------------------------------ C25
\* The handler of GetActiveConnections leaves the collector's list behind:
\* it returns or it panics.
GetConnectionsEnds ==
    /\ rpc.phase = "collector" /\ rpc.method = "GetConnections"
    /\ rpc'.phase # "collector"

\* The filters of a GetActiveConnections request, on a flow.
FlowMatchesRequest(c, req) ==
    /\ (req.Protocol = "PROTOCOL_UNSPECIFIED" \/ c.Protocol = req.Protocol)
    /\ (req.DestIpPrefix = "" \/ HasPrefix(c.DestIp, req.DestIpPrefix))
    /\ (req.DestPort = 0 \/ c.DestPort = req.DestPort)

\* C25: GetActiveConnections returns a response for every limit value; the
\* response holds at most limit flows (100 when limit is 0) of the
\* collector's materialized list, each satisfying every given filter, and
\* its total_count is the number of flows of the list matching the filters.
C25_GetActiveConnectionsFiltersAndLimits ==
    [][GetConnectionsEnds =>
         /\ rpc'.phase = "done"
         /\ LET req == rpc.req
                resp == rpc'.resp
            IN /\ resp.err = ""
               /\ Len(resp.Connections) <= (IF req.Limit = 0 THEN 100 ELSE req.Limit)
               /\ \A i \in 1..Len(resp.Connections) :
                    /\ FlowMatchesRequest(resp.Connections[i], req)
                    /\ \E j \in 1..Len(rdResult) : rdResult[j] = resp.Connections[i]
               /\ resp.TotalCount =
                    Cardinality({j \in 1..Len(rdResult) :
                                    FlowMatchesRequest(rdResult[j], req)})]_vars

\* ------------------------------------------------------------------ C26
\* get_summary folds the list the collector returned.
SummaryReturned ==
    /\ rpc'.phase = "done" /\ rpc'.method = "GetConnectionSummary"
    /\ rpc'.resp.err = ""
    /\ <<rpc, rdResult>>' # <<rpc, rdResult>>

\* The sum of f[i] over i in 1..n.
RECURSIVE SumTo(_, _)
SumTo(f, n) == IF n = 0 THEN 0 ELSE f[n] + SumTo(f, n - 1)

\* C26: for the list of active flows of the container, get_summary returns
\* active_connections equal to its length, tcp and udp counts equal to the
\* number of flows of each protocol, total sent and received equal to the
\* sums of bytes_sent and bytes_received, and one destination entry per
\* distinct dest_ip, whose connection counts sum to active_connections and
\* whose byte totals sum to total sent plus total received.
C26_SummaryFoldsTheFlowList ==
    [][SummaryReturned =>
         LET flows == rdResult'
             n == Len(flows)
             sum == rpc'.resp.Summary
             top == sum.TopDestinations
         IN /\ sum.ActiveConnections = n
            /\ sum.TcpConnections =
                 Cardinality({i \in 1..n : flows[i].Protocol = "PROTOCOL_TCP"})
            /\ sum.UdpConnections =
                 Cardinality({i \in 1..n : flows[i].Protocol = "PROTOCOL_UDP"})
            /\ sum.TotalBytesSent = SumTo([i \in 1..n |-> flows[i].BytesSent], n)
            /\ sum.TotalBytesReceived = SumTo([i \in 1..n |-> flows[i].BytesReceived], n)
            /\ {top[i].DestIp : i \in 1..Len(top)} = {flows[i].DestIp : i \in 1..n}
            /\ \A i, j \in 1..Len(top) : top[i].DestIp = top[j].DestIp => i = j
            /\ SumTo([i \in 1..Len(top) |-> top[i].ConnectionCount], Len(top))
                 = sum.ActiveConnections
            /\ SumTo([i \in 1..Len(top) |-> top[i].BytesTotal], Len(top))
                 = sum.TotalBytesSent + sum.TotalBytesReceived]_vars

\* A summary of two tcp flows, a udp flow and an icmp flow to two
\* destinations, with bytes in both directions.
C26_Witness ==
    /\ rpc.phase = "done"
    /\ rpc.method = "GetConnectionSummary"
    /\ rpc.resp.err = ""
    /\ rpc.resp.Summary.ActiveConnections = 4
    /\ rpc.resp.Summary.TcpConnections = 2
    /\ rpc.resp.Summary.UdpConnections = 1
    /\ Len(rpc.resp.Summary.TopDestinations) = 2
    /\ rpc.resp.Summary.TopDestinations[1].ConnectionCount = 2
    /\ rpc.resp.Summary.TotalBytesSent > 0
    /\ rpc.resp.Summary.TotalBytesReceived > 0

\* ------------------------------------------------------------------ C27
\* The endpoints that query the store.
StoreEndpoints == {"QueryTrafficHistory", "GetTrafficAggregates"}

\* The texts of the two errors.
NameRequired == "container_name is required"
NotAvailable == "traffic persistence not available"

\* An error of the invalid-argument kind, and one of the unavailable kind.
InvalidArgument(resp) == resp.err # "" /\ resp.code = "InvalidArgument"
Unavailable(resp) == resp.err # "" /\ resp.code = "Unavailable"

\* Nothing but the call record changes.
OnlyRpcChanges ==
    UNCHANGED <<configVars, aggregateResult, mcp, monitorVars, loopVars, stopVars, rdVars,
                dbVars, clock, kernelVars, events, cacheVars, storePresent, connections,
                mu, evVars, snapVars, published, persistTasks, storeVars, histVars>>

\* C27: without a store, QueryHistory and GetAggregates fail with an
\* unavailable error and no store call is made; with an empty container name
\* they and the live endpoints fail with an invalid-argument error before
\* anything else is done.
C27_UnavailableAndInvalidArgument ==
    /\ [](rpc.phase \in {"collector", "store", "done"} =>
            /\ (rpc.req.ContainerName = "" =>
                  rpc.phase = "done" /\ InvalidArgument(rpc.resp))
            /\ (rpc.method \in StoreEndpoints /\ rpc.req.ContainerName # ""
                  /\ ~storePresent =>
                  rpc.phase = "done" /\ Unavailable(rpc.resp)))
    /\ [][/\ ~storePresent => UNCHANGED <<queryResult, aggregateResult, storeVars, aggRows>>
          /\ (rpc' # rpc /\ rpc'.phase = "done"
                /\ rpc'.resp.err \in {NameRequired, NotAvailable})
               => (rpc.phase \in {"none", "done"} /\ OnlyRpcChanges)]_vars

\* ------------------------------------------------------------------ C28
\* handleRequest has answered a request.
McpAnswered == mcp.phase = "done" /\ mcp.parsed

\* C28: for every request, the response of handleRequest has jsonrpc "2.0",
\* the id of the request, and exactly one of result and error set.
C28_ResponseIsJsonRpc ==
    McpAnswered =>
        /\ mcp.resp.JSONRPC = "2.0"
        /\ mcp.resp.ID = mcp.req.ID
        /\ (mcp.resp.Result = Nil) # (mcp.resp.Error = Nil)

\* A tools/call with a string id has failed in the tool's handler: the error
\* response carries that id and no result.
C28_Witness ==
    /\ McpAnswered
    /\ mcp.req.Method = "tools/call"
    /\ mcp.req.ID = JsonString("1")
    /\ mcp.calls = <<"get_metrics">>
    /\ mcp.resp.ID = JsonString("1")
    /\ mcp.resp.Result = Nil
    /\ mcp.resp.Error # Nil /\ mcp.resp.Error.Code = InternalError

\* ------------------------------------------------------------------ C29
\* The tools/call request names no tool: no name, a name that is not a string,
\* or the name of no registered tool.
NamesNoTool(params) ==
    \/ params = Nil
    \/ params.t # "params"
    \/ params.name.t # "string"
    \/ params.name.s \notin registerTools

\* C29: an unknown method is answered with -32601; a tools/call whose params
\* lack name, have a non-string name or name an unregistered tool is answered
\* with -32602, and no tool handler runs.
C29_UnknownMethodAndBadToolCall ==
    McpAnswered =>
        /\ (mcp.req.Method \notin {"initialize", "tools/list", "tools/call"} =>
               /\ mcp.resp.Error # Nil /\ mcp.resp.Error.Code = -32601
               /\ mcp.calls = <<>>)
        /\ (mcp.req.Method = "tools/call" /\ NamesNoTool(mcp.req.Params) =>
               /\ mcp.resp.Error # Nil /\ mcp.resp.Error.Code = -32602
               /\ mcp.calls = <<>>)

\* A tools/call with a number as name has been refused with -32602 and no
\* handler ran.
C29_Witness ==
    /\ McpAnswered
    /\ mcp.req.Method = "tools/call"
    /\ mcp.req.Params # Nil /\ mcp.req.Params.t = "params"
    /\ mcp.req.Params.name = JsonNumber(123)
    /\ mcp.resp.Error # Nil /\ mcp.resp.Error.Code = -32602
    /\ mcp.calls = <<>>

\* ------------------------------------------------------------------ C30
\* The attribution rule on one directory generation: the source address
\* first, then the destination address, else no container.
RuleOutcome(generation, event) ==
    IF MapGet(generation, event.SrcIP) # ""
    THEN [Direction |-> "EGRESS", ContainerName |-> MapGet(generation, event.SrcIP)]
    ELSE IF MapGet(generation, event.DstIP) # ""
    THEN [Direction |-> "INGRESS", ContainerName |-> MapGet(generation, event.DstIP)]
    ELSE [Direction |-> "DROP", ContainerName |-> ""]

\* The event loop decides on the source lookup, or on the destination lookup
\* with at most one refresh since the source lookup.
DecidedOnSource == evPc = "idle" /\ evPc' = "update"
DecidedOnDestination == evPc = "lookupDst" /\ evPc' # "lookupDst" /\ hGen.refreshes <= 1

\* What the event loop decided in this step.
DecidedOutcome ==
    IF evPc' = "update"
    THEN [Direction |-> evConn'.Direction, ContainerName |-> evConn'.ContainerName]
    ELSE [Direction |-> "DROP", ContainerName |-> ""]

\* C30: with a refresh interleaved with the processing of one raw flow, the
\* outcome (EGRESS for a container, INGRESS for a container, or drop) is the
\* outcome of the attribution rule on the directory generation before the
\* refresh or on the one after it.
C30_DecisionUsesOneGeneration ==
    [][/\ DecidedOnSource => DecidedOutcome = RuleOutcome(ipToName, evCur')
       /\ DecidedOnDestination =>
            DecidedOutcome \in {RuleOutcome(hGen.before, evCur), RuleOutcome(ipToName, evCur)}]_vars

\* ------------------------------------------------------------------ C31
\* The effect of an event on a registry: its flow removed by a DESTROY, its
\* flow set to the event's connection otherwise, every other flow kept.
EventEffect(registry, event, conn) ==
    [id \in (IF event.Type = "DESTROY" THEN DOMAIN registry \ {event.ID}
             ELSE DOMAIN registry \cup {event.ID}) |->
        IF id = event.ID THEN conn ELSE registry[id]]

\* C31: replace_all and the event loop's upserts and removals are totally
\* ordered.  While a reconciliation holds the registry, the registry changes
\* only by the reconciliation ending, and then it is exactly the snapshot's
\* attributed set; any other change is one event's effect applied on top of
\* the registry as it stands.
C31_ReplaceAllAndEventsAreOrdered ==
    [][/\ mu = "snap" =>
            \/ connections' = connections
            \/ snapPc' = "idle" /\ connections' = snapBuild
       /\ (mu # "snap" /\ connections' # connections) =>
            /\ evPc = "update"
            /\ connections' = EventEffect(connections, evCur, evConn)]_vars

\* An event of flow 1 was applied on top of a reconciliation that had put
\* flow 2 into the registry: both flows are there.
C31_Witness ==
    /\ snapPc = "idle" /\ evPc = "idle"
    /\ hLastWrite[2] = "SNAP_IN"
    /\ hLastWrite[1] \in {"NEW", "UPDATE"}
    /\ DOMAIN connections = {1, 2}

\* ------------------------------------------------------------------ C32
\* C32: a flow that a DESTROY event removed from the registry is not put back
\* by a reconciliation whose table dump was read before that DESTROY was
\* processed.
C32_StaleDumpDoesNotResurrect ==
    [][(snapPc = "src" /\ snapPc' = "idle") =>
          \A id \in hStale : id \notin DOMAIN connections']_vars

\* ------------------------------------------------------------------ C33
\* The flows of a registry that GetConnections(containerName) returns.
FlowsOf(registry, containerName) ==
    {registry[id] : id \in {x \in DOMAIN registry :
                               containerName = "" \/ registry[x].ContainerName = containerName}}

\* C33: replace_all is atomic for readers and writers exclude each other.  A
\* read of GetConnections returns the flows of the registry as the last
\* completed write left it (the contents before a replace in progress, or the
\* complete rebuilt contents), never those of a registry being rebuilt; while
\* a reconciliation holds the registry the event loop does not write it.
C33_ReplaceAllIsAtomicForReaders ==
    [][/\ (rdPc = "read" /\ rdPc' = "done") =>
            {rdResult'[i] : i \in 1..Len(rdResult')} = FlowsOf(connections, rdArg)
       /\ (mu \in {"snap", "reader"} /\ connections' # connections) =>
            /\ mu' = "free"
            /\ connections' = IF mu = "snap" THEN snapBuild ELSE rdBuild]_vars

\* A caller of GetConnections is at its read while the snapshot loop holds the
\* registry and has rebuilt only a part of it.
C33_Witness ==
    /\ rdPc = "read"
    /\ mu = "snap"
    /\ snapPc \in {"src", "dst"}
    /\ DOMAIN connections = {1, 2}
    /\ DOMAIN snapBuild = {1}
    /\ snapIdx <= Len(snapDump)

\* ------------------------------------------------------------------ C34
\* C34: in every state a reader can observe the two maps of the directory are
\* mutual inverses (lookup_by_ip(ip) = name exactly when lookup_by_name(name)
\* = ip), no entry has an empty ip, and size() is the number of entries of
\* both maps.
C34_DirectoryMapsAreInverses ==
    /\ \A ip \in {IpA, IpB, IpC}, name \in {"a", "b", "c"} :
         (LookupIP(ip) = name) <=> (LookupName(name) = ip)
    /\ "" \notin DOMAIN ipToName
    /\ \A name \in DOMAIN nameToIP : nameToIP[name] # ""
    /\ Size = Cardinality(DOMAIN ipToName)
    /\ Size = Cardinality(DOMAIN nameToIP)

\* ------------------------------------------------------------------ C35
\* C35: a refresh whose inventory fetch fails leaves both maps of the
\* directory exactly as they were, and the refresh loop goes on to its next
\* tick; after a failed initial refresh the cache is empty and answers
\* lookups.
C35_FailedRefreshKeepsGeneration ==
    /\ [][/\ ipToName' = ipToName
          /\ nameToIP' = nameToIP
          /\ refreshPc' # refreshPc => (refreshPc = "initial" /\ refreshPc' = "select")]_vars
    /\ [](refreshPc \in {"initial", "select"} /\ ~panicked)

\* The initial refresh has failed: the refresh loop is at its select with
\* empty maps, and the event loop has looked both addresses of a flow up and
\* found no container.
C35_Witness ==
    /\ refreshPc = "select"
    /\ ipToName = EmptyMap /\ nameToIP = EmptyMap
    /\ hLastObserved[1] = "NEW" /\ ~hLastAttributed[1]
    /\ evPc = "idle"

\* C36: while every snapshot call of the flow source fails, a step that is
\* not the event loop's update (a failing snapshot among them) leaves the
\* registry and the published lifecycle events as they are and hands nothing
\* to persistence, the store changes only by a save of a completed flow that
\* was pending, and the snapshot loop stays at its select, holding no lock,
\* ready for the next tick.
C36_FailedSnapshotChangesNothing ==
    /\ [][evPc' = evPc =>
            /\ connections' = connections
            /\ published' = published
            /\ persistTasks' \subseteq persistTasks
            /\ storeRows' # storeRows => persistTasks' # persistTasks]_vars
    /\ [](snapPc = "idle" /\ mu = "free" /\ ~panicked)

\* One flow was reported and nothing else, the second tick of the clock was
\* a failed snapshot, and the registry holds the flow.
C36_Witness ==
    /\ clock = 2
    /\ hLastObserved = [id \in FlowIds |-> IF id = 1 THEN "NEW" ELSE "none"]
    /\ DOMAIN connections = {1}
    /\ Len(published) = 1
    /\ snapPc = "idle"

\* C37: the number of SaveConnection calls in flight (goroutines started for a
\* DESTROY that have not finished their save) is at most the worker bound.
C37_PersistenceIsBounded == Cardinality(persistTasks) <= WorkerBound

C39_LoopsExitAfterStop ==
    /\ (Started /\ StopCalled) ~> (Started /\ LoopsExited)
    /\ [][(Started /\ LoopsExited) =>
            /\ (Started /\ LoopsExited)'
            /\ connections' = connections
            /\ ipToName' = ipToName
            /\ nameToIP' = nameToIP
            /\ storeRows' # storeRows => persistTasks' # persistTasks]_vars

\* ------------------------------------------------------------------ C40
\* C40: the listener never sends on the event channel after Close has
\* closed it: no step of the running listener on the closed channel is a
\* send (which is the step that panics).
C40_NoSendAfterClose ==
    [][~(/\ listenPc = "running"
         /\ eventsClosed
         /\ ~panicked
         /\ panicked'
         /\ stopPc' = stopPc)]_vars

====
